---- MODULE Spec2Model ----
(***************************************************************************)
(* Verification model of the spectral path tracer (Rust_Rendering_Engine). *)
(*                                                                         *)
(* These parts of the program are modelled, each with its own              *)
(* specification over the shared variable tuple `vars`:                    *)
(*   SpecTri   Triangle::intersect           (src/shapes/triangle.rs)      *)
(*   SpecList  GeometricPrimitive / PrimitiveList::intersect               *)
(*                                           (src/core/primitive.rs)       *)
(*   SpecPath  the bounce loop of render     (src/core/integrator.rs)      *)
(*   SpecPH    power_heuristic               (src/core/integrator.rs)      *)
(*   SpecFr    fr_dielectric                 (src/core/reflection.rs)      *)
(*   SpecThin  ThinDielectricBxDF            (src/core/bsdf.rs)            *)
(*   SpecDiff  DiffuseBxDF::sample_f         (src/core/bsdf.rs)            *)
(*   SpecLi    DiffuseAreaLight::sample_li   (src/core/light.rs)           *)
(*   SpecMat   PrincipledMaterial            (src/core/material.rs)        *)
(*   SpecPixel the sample loop of render     (src/core/integrator.rs)      *)
(*   SpecDiv   impl Div for SampledSpectrum  (src/core/spectrum.rs)        *)
(*   SpecBlend FresnelBlend::sample_f        (src/core/bsdf.rs)            *)
(*   SpecScale two paths of render, the      (src/core/integrator.rs)      *)
(*             second under a brighter light                               *)
(*                                                                         *)
(* Arithmetic.  f32 values are modelled as exact rationals <<n, d>> in     *)
(* lowest terms with d > 0.  The inputs of SpecTri are dyadic rationals    *)
(* of small magnitude whenever DirMax <= 2, for which every f32 operation  *)
(* of Triangle::intersect is exact, so the model then computes what the    *)
(* compiled code computes.  power_heuristic is modelled on binary32        *)
(* powers of two with the exponent range of the format, because its        *)
(* squares leave that range.                                               *)
(***************************************************************************)
EXTENDS Integers, Sequences, FiniteSets, TLC

VARIABLES
    tri,              \* SpecTri: the ray under test and the two intersect results
    lst,              \* SpecList: PrimitiveList::intersect in progress
    pc, bounces, L, beta, specular_bounce, hit, nee, sample, cause, iters,
    lights,           \* SpecPath: one path of render's bounce loop
    ph,               \* SpecPH: one call of power_heuristic
    call              \* one call of a function of the BSDF, light, material or
                      \* spectrum code, with its arguments and its result

pathVars ==
    <<pc, bounces, L, beta, specular_bounce, hit, nee, sample, cause, iters, lights>>
vars ==
    <<tri, lst, pc, bounces, L, beta, specular_bounce, hit, nee, sample, cause,
      iters, lights, ph, call>>

(* Option<T>: None, or a record with some = TRUE carrying the value.        *)
None == [some |-> FALSE]
IsSome(o) == o.some

---------------------------------------------------------------------------
(* Exact rational arithmetic standing for f32 arithmetic.                  *)

Abs(i) == IF i < 0 THEN -i ELSE i

RECURSIVE GCD(_, _)
GCD(a, b) == IF b = 0 THEN a ELSE GCD(b, a % b)

Q(n, d) ==
    LET g == GCD(Abs(n), Abs(d))
        s == IF d < 0 THEN -1 ELSE 1
    IN  <<(s * n) \div g, (s * d) \div g>>

QI(i) == <<i, 1>>
QZero == <<0, 1>>
QOne == <<1, 1>>

QAdd(a, b) == Q(a[1] * b[2] + b[1] * a[2], a[2] * b[2])
QSub(a, b) == Q(a[1] * b[2] - b[1] * a[2], a[2] * b[2])
QMul(a, b) == Q(a[1] * b[1], a[2] * b[2])
QDiv(a, b) == Q(a[1] * b[2], a[2] * b[1])
QNeg(a) == <<-a[1], a[2]>>
QAbs(a) == <<Abs(a[1]), a[2]>>
QLt(a, b) == a[1] * b[2] < b[1] * a[2]
QLe(a, b) == a[1] * b[2] <= b[1] * a[2]
QGt(a, b) == QLt(b, a)
QGe(a, b) == QLe(b, a)
QMax(a, b) == IF QLt(a, b) THEN b ELSE a
QMin(a, b) == IF QLt(b, a) THEN b ELSE a

(* f32::INFINITY and its products, as far as Triangle::intersect meets     *)
(* them: t_max may be INFINITY, and then t_max * det is +-INFINITY.        *)
Inf == <<1, 0>>
NegInf == <<-1, 0>>
NaN == <<0, 0>>
XMul(x, q) ==
    IF x = Inf
    THEN (IF QGt(q, QZero) THEN Inf ELSE IF QLt(q, QZero) THEN NegInf ELSE NaN)
    ELSE QMul(x, q)
XLt(q, x) ==
    IF x = Inf THEN TRUE ELSE IF x \in {NegInf, NaN} THEN FALSE ELSE QLt(q, x)
XGt(q, x) ==
    IF x = NegInf THEN TRUE ELSE IF x \in {Inf, NaN} THEN FALSE ELSE QGt(q, x)

---------------------------------------------------------------------------
(* Vector3 / Point3 (src/core/geometry.rs)                                 *)

V3(x, y, z) == [x |-> x, y |-> y, z |-> z]
VI(x, y, z) == V3(QI(x), QI(y), QI(z))
VSub(a, b) == V3(QSub(a.x, b.x), QSub(a.y, b.y), QSub(a.z, b.z))
VAdd(a, b) == V3(QAdd(a.x, b.x), QAdd(a.y, b.y), QAdd(a.z, b.z))
VScale(a, s) == V3(QMul(a.x, s), QMul(a.y, s), QMul(a.z, s))
VNeg(a) == V3(QNeg(a.x), QNeg(a.y), QNeg(a.z))
VDot(a, b) == QAdd(QAdd(QMul(a.x, b.x), QMul(a.y, b.y)), QMul(a.z, b.z))
VCross(a, b) ==
    V3(QSub(QMul(a.y, b.z), QMul(a.z, b.y)),
       QSub(QMul(a.z, b.x), QMul(a.x, b.z)),
       QSub(QMul(a.x, b.y), QMul(a.y, b.x)))

RayAt(ray, t) == VAdd(ray.o, VScale(ray.d, t))

(* Mutant of difference_of_products: the product c*d enters with the       *)
(* wrong sign.                                                             *)
difference_of_products_SignSlip(a, b, c, d) ==
    QAdd(QMul(a, b), QMul(c, d))

(* difference_of_products: a*b - c*d with the FMA error term.              *)
difference_of_products(a, b, c, d) ==
    LET cd == QMul(c, d)
        diff == QAdd(QMul(a, b), QNeg(cd))
        error == QAdd(QMul(QNeg(c), d), cd)
    IN  QAdd(diff, error)

---------------------------------------------------------------------------
(* TriangleMesh and Triangle::intersect (src/shapes/triangle.rs)           *)

(* kz: the axis of the largest |ray.d| component, with the code's ties.    *)
TriKz(rd) ==
    LET ax == QAbs(rd.x)
        ay == QAbs(rd.y)
        az == QAbs(rd.z)
    IN  IF QGt(ax, ay)
        THEN (IF QGt(ax, az) THEN 0 ELSE 2)
        ELSE (IF QGt(ay, az) THEN 1 ELSE 2)

Permute(v, kx, ky, kz) ==
    LET c == <<v.x, v.y, v.z>>
    IN  V3(c[kx + 1], c[ky + 1], c[kz + 1])

(* The operators below follow intersect step by step; each intermediate   *)
(* value of the code is handed on as an operator argument.                 *)

(* Step 2, the shear of one translated, permuted vertex (z is left as is). *)
ShearPoint(pv, sx, sy) ==
    V3(QAdd(pv.x, QMul(sx, pv.z)), QAdd(pv.y, QMul(sy, pv.z)), pv.z)

ShearAll(p0t_vec, p1t_vec, p2t_vec, d) ==
    [p0t |-> ShearPoint(p0t_vec, QDiv(QNeg(d.x), d.z), QDiv(QNeg(d.y), d.z)),
     p1t |-> ShearPoint(p1t_vec, QDiv(QNeg(d.x), d.z), QDiv(QNeg(d.y), d.z)),
     p2t |-> ShearPoint(p2t_vec, QDiv(QNeg(d.x), d.z), QDiv(QNeg(d.y), d.z)),
     sz |-> QDiv(QOne, d.z)]

(* Steps 1-2: translation to the ray origin, permutation, shear.           *)
TriShear(p0, p1, p2, ray, kz) ==
    ShearAll(Permute(VSub(p0, ray.o), (kz + 1) % 3, (kz + 2) % 3, kz),
             Permute(VSub(p1, ray.o), (kz + 1) % 3, (kz + 2) % 3, kz),
             Permute(VSub(p2, ray.o), (kz + 1) % 3, (kz + 2) % 3, kz),
             Permute(ray.d, (kz + 1) % 3, (kz + 2) % 3, kz))

(* Step 4: when an edge function is exactly zero all three are recomputed  *)
(* in double precision; the deferred z-shear is applied.                   *)
EdgeSelect(S, e0a, e1a, e2a) ==
    [e0 |-> IF e0a = QZero \/ e1a = QZero \/ e2a = QZero
            THEN QSub(QMul(S.p2t.y, S.p1t.x), QMul(S.p2t.x, S.p1t.y)) ELSE e0a,
     e1 |-> IF e0a = QZero \/ e1a = QZero \/ e2a = QZero
            THEN QSub(QMul(S.p0t.y, S.p2t.x), QMul(S.p0t.x, S.p2t.y)) ELSE e1a,
     e2 |-> IF e0a = QZero \/ e1a = QZero \/ e2a = QZero
            THEN QSub(QMul(S.p1t.y, S.p0t.x), QMul(S.p1t.x, S.p0t.y)) ELSE e2a,
     p0tz |-> QMul(S.p0t.z, S.sz),
     p1tz |-> QMul(S.p1t.z, S.sz),
     p2tz |-> QMul(S.p2t.z, S.sz)]

(* Step 3: the edge functions of the sheared vertices.                     *)
EdgesOfShear(S) ==
    EdgeSelect(S,
               difference_of_products(S.p1t.x, S.p2t.y, S.p1t.y, S.p2t.x),
               difference_of_products(S.p2t.x, S.p0t.y, S.p2t.y, S.p0t.x),
               difference_of_products(S.p0t.x, S.p1t.y, S.p0t.y, S.p1t.x))

TriangleEdges(mesh, v_index, ray) ==
    EdgesOfShear(TriShear(mesh.p[mesh.vertex_indices[v_index]],
                          mesh.p[mesh.vertex_indices[v_index + 1]],
                          mesh.p[mesh.vertex_indices[v_index + 2]],
                          ray, TriKz(ray.d)))

(* Mutant of TriMixedSigns: a zero edge function counts as outside.        *)
TriMixedSigns_ZeroOutside(e0, e1, e2) ==
    /\ (QLe(e0, QZero) \/ QLe(e1, QZero) \/ QLe(e2, QZero))
    /\ (QGe(e0, QZero) \/ QGe(e1, QZero) \/ QGe(e2, QZero))

(* The sign test of the edge functions: TRUE when the signs are mixed.     *)
TriMixedSigns(e0, e1, e2) ==
    /\ (QLt(e0, QZero) \/ QLt(e1, QZero) \/ QLt(e2, QZero))
    /\ (QGt(e0, QZero) \/ QGt(e1, QZero) \/ QGt(e2, QZero))

(* Mutant of TriOutOfRange: the lower bound is tested as for det > 0       *)
(* whatever the sign of det.                                               *)
TriOutOfRange_LowerAsPositive(det, t_scaled, t_max) ==
    \/ (QLt(det, QZero)
        /\ (QLe(t_scaled, QZero) \/ XLt(t_scaled, XMul(t_max, det))))
    \/ (QGt(det, QZero)
        /\ (QLe(t_scaled, QZero) \/ XGt(t_scaled, XMul(t_max, det))))

(* The range test on t_scaled: TRUE when the hit is rejected.              *)
TriOutOfRange(det, t_scaled, t_max) ==
    \/ (QLt(det, QZero)
        /\ (QGe(t_scaled, QZero) \/ XLt(t_scaled, XMul(t_max, det))))
    \/ (QGt(det, QZero)
        /\ (QLe(t_scaled, QZero) \/ XGt(t_scaled, XMul(t_max, det))))

(* Barycentric interpolation of the vertex UVs; (0, 0) without UVs.       *)
TriUV(mesh, v_index, b0, b1, b2) ==
    IF IsSome(mesh.uv)
    THEN <<QAdd(QAdd(QMul(b0, mesh.uv.v[mesh.vertex_indices[v_index]][1]),
                     QMul(b1, mesh.uv.v[mesh.vertex_indices[v_index + 1]][1])),
                QMul(b2, mesh.uv.v[mesh.vertex_indices[v_index + 2]][1])),
           QAdd(QAdd(QMul(b0, mesh.uv.v[mesh.vertex_indices[v_index]][2]),
                     QMul(b1, mesh.uv.v[mesh.vertex_indices[v_index + 1]][2])),
                QMul(b2, mesh.uv.v[mesh.vertex_indices[v_index + 2]][2]))>>
    ELSE <<QZero, QZero>>

(* The geometric normal cross(p1 - p0, p2 - p0); its division by the       *)
(* length is left out (no square root in the rationals), so n gives the    *)
(* direction only.                                                         *)
TriGeomNormal(p0, p1, p2) == VCross(VSub(p1, p0), VSub(p2, p0))

(* Steps 9-10: the division by det and the interaction.                    *)
TriHitRecord(mesh, v_index, ray, E, t_scaled, inv_det) ==
    [some |-> TRUE,
     t |-> QMul(t_scaled, inv_det),
     p |-> RayAt(ray, QMul(t_scaled, inv_det)),
     uv |-> TriUV(mesh, v_index,
                  QMul(E.e0, inv_det), QMul(E.e1, inv_det), QMul(E.e2, inv_det)),
     wo |-> VNeg(ray.d),
     n |-> TriGeomNormal(mesh.p[mesh.vertex_indices[v_index]],
                         mesh.p[mesh.vertex_indices[v_index + 1]],
                         mesh.p[mesh.vertex_indices[v_index + 2]])]

(* Mutant of TriDecide: the sign test of the edge functions is left out.   *)
TriDecide_NoSignTest(mesh, v_index, ray, t_max, E, det, t_scaled) ==
    IF det = QZero THEN None
    ELSE IF TriOutOfRange(det, t_scaled, t_max) THEN None
    ELSE TriHitRecord(mesh, v_index, ray, E, t_scaled, QDiv(QOne, det))

(* Steps 6-8: sign test, det == 0, range test on t_scaled.                 *)
TriDecide(mesh, v_index, ray, t_max, E, det, t_scaled) ==
    IF TriMixedSigns(E.e0, E.e1, E.e2) THEN None
    ELSE IF det = QZero THEN None
    ELSE IF TriOutOfRange(det, t_scaled, t_max) THEN None
    ELSE TriHitRecord(mesh, v_index, ray, E, t_scaled, QDiv(QOne, det))

TriFromEdges(mesh, v_index, ray, t_max, E) ==
    TriDecide(mesh, v_index, ray, t_max, E,
              QAdd(QAdd(E.e0, E.e1), E.e2),
              QAdd(QAdd(QMul(E.e0, E.p0tz), QMul(E.e1, E.p1tz)), QMul(E.e2, E.p2tz)))

(* Triangle::intersect                                                     *)
TriangleIntersect(mesh, v_index, ray, t_max) ==
    TriFromEdges(mesh, v_index, ray, t_max, TriangleEdges(mesh, v_index, ray))

---------------------------------------------------------------------------
(* SpecTri: rays against a two-triangle mesh.                              *)
(*                                                                         *)
(* Triangle 0 is the triangle of main's intersection test; triangle 1      *)
(* shares its edge p1-p2 (same two vertices of the mesh), either in the    *)
(* same plane or folded out of it.  A ray is built through a target point  *)
(* q of triangle 0's plane, q = (a*p0 + b*p1 + c*p2)/BaryDen with          *)
(* a + b + c = BaryDen, reached at parameter tpar: o = q - tpar*d.         *)

DirMax == 2       \* ray direction x, y range over -DirMax..DirMax, z over -1..1
BaryDen == 4      \* denominator of the barycentric target grid

Mesh(folded) ==
    [n_triangles |-> 2,
     vertex_indices |-> [i \in 0..5 |-> <<0, 1, 2, 1, 3, 2>>[i + 1]],
     p |-> [i \in 0..3 |->
              <<VI(-1, -1, 0), VI(1, -1, 0), VI(0, 1, 0),
                VI(2, 1, IF folded THEN 1 ELSE 0)>>[i + 1]],
     uv |-> IF folded
            THEN [some |-> TRUE,
                  v |-> [i \in 0..3 |->
                           <<<<QZero, QZero>>, <<QOne, QZero>>,
                             <<QZero, QOne>>, <<QOne, QOne>>>>[i + 1]]]
            ELSE None]

(* Triangle::new: v_index = tri_number * 3.                                *)
TriangleNew(tri_number) == tri_number * 3

Dirs ==
    {V3(QI(x), QI(y), QI(z)) : x, y \in -DirMax..DirMax, z \in -1..1}
        \ {VI(0, 0, 0)}

BaryWeights ==
    {w \in (-1..BaryDen + 1) \X (-1..BaryDen + 1) \X (-1..BaryDen + 1) :
        w[1] + w[2] + w[3] = BaryDen}

(* Pairs <<tpar, t_max>> of construction parameter (negative: the target   *)
(* lies behind the origin) and segment bound: the target before, at and    *)
(* beyond the bound; GeometricPrimitive passes f32::INFINITY.              *)
Segments ==
    {<<-1, Inf>>, <<2, Inf>>, <<1, QI(2)>>, <<2, QI(2)>>, <<2, QI(1)>>}

Target(mesh, w) ==
    VScale(VAdd(VAdd(VScale(mesh.p[0], QI(w[1])), VScale(mesh.p[1], QI(w[2]))),
                VScale(mesh.p[2], QI(w[3]))),
           Q(1, BaryDen))

(* Ray::new(o, d, time)                                                    *)
RayNew(o, d) == [o |-> o, d |-> d]

TriState(folded, w, q, d, tp, tm) ==
    [mesh |-> Mesh(folded),
     w |-> w,
     q |-> q,
     tpar |-> QI(tp),
     ray |-> RayNew(VSub(q, VScale(d, QI(tp))), d),
     t_max |-> tm,
     done |-> {},
     res |-> [k \in 0..1 |-> None]]

InitTriState ==
    \E folded \in BOOLEAN, w \in BaryWeights, d \in Dirs, seg \in Segments :
        tri = TriState(folded, w, Target(Mesh(folded), w), d, seg[1], seg[2])

(* One call tri_k.intersect(&ray, t_max).                                  *)
TriIntersect(k) ==
    /\ tri # None
    /\ k \notin tri.done
    /\ tri' = [tri EXCEPT
                 !.res[k] = TriangleIntersect(tri.mesh, TriangleNew(k), tri.ray, tri.t_max),
                 !.done = @ \cup {k}]
    /\ UNCHANGED <<lst, pathVars, ph, call>>

IdlePath ==
    /\ pc = "idle" /\ bounces = 0 /\ L = None /\ beta = None
    /\ specular_bounce = FALSE /\ hit = None /\ nee = None /\ sample = None
    /\ cause = "none" /\ iters = 0 /\ lights = << >>

InitTri == InitTriState /\ lst = None /\ IdlePath /\ ph = None /\ call = None

NextTri == \E k \in 0..1 : TriIntersect(k)

SpecTri == InitTri /\ [][NextTri]_vars

---------------------------------------------------------------------------
(* Geometry of the construction, independent of Triangle::intersect.       *)

TriVertex(k, i) == tri.mesh.p[tri.mesh.vertex_indices[TriangleNew(k) + i]]
TriNormal(k) ==
    VCross(VSub(TriVertex(k, 1), TriVertex(k, 0)), VSub(TriVertex(k, 2), TriVertex(k, 0)))
(* the ray is parallel to the plane of triangle k                          *)
Parallel(k) == VDot(tri.ray.d, TriNormal(k)) = QZero
(* the target is reached in front of the origin, before the segment bound  *)
Aimed == QGt(tri.tpar, QZero) /\ XLt(tri.tpar, tri.t_max)
(* the target lies on the edge p1-p2 shared by the two triangles           *)
OnSharedEdge == tri.w[1] = 0 /\ tri.w[2] >= 0 /\ tri.w[3] >= 0
(* the target lies strictly inside triangle 0                              *)
StrictlyInside == tri.w[1] > 0 /\ tri.w[2] > 0 /\ tri.w[3] > 0
(* side of vertex i of triangle 0 relative to a line lying in its plane    *)
SideOfLine(i) ==
    VDot(VCross(tri.ray.d, VSub(TriVertex(0, i), tri.q)), TriNormal(0))
(* the ray's line has no point in common with the closed triangle 0        *)
LineOutside ==
    IF Parallel(0)
    THEN \/ \A i \in 0..2 : QGt(SideOfLine(i), QZero)
         \/ \A i \in 0..2 : QLt(SideOfLine(i), QZero)
    ELSE tri.w[1] < 0 \/ tri.w[2] < 0 \/ tri.w[3] < 0
TriDone(k) == tri # None /\ k \in tri.done
TriHit(k) == IsSome(tri.res[k])

DetOf(E) == QAdd(QAdd(E.e0, E.e1), E.e2)
TScaledOf(E) ==
    QAdd(QAdd(QMul(E.e0, E.p0tz), QMul(E.e1, E.p1tz)), QMul(E.e2, E.p2tz))
TriScaled(k) == TriangleEdges(tri.mesh, TriangleNew(k), tri.ray)

(* C5 as stated: every reported hit has 0 < t < t_max.                     *)
C5_OpenInterval ==
    \A k \in 0..1 :
        (TriDone(k) /\ TriHit(k)) =>
            (QGt(tri.res[k].t, QZero) /\ XLt(tri.res[k].t, tri.t_max))

(* C5 amended: for either sign of det, intersect returns None whenever     *)
(* t = t_scaled/det is <= 0 or > t_max, and every reported hit has         *)
(* 0 < t <= t_max: a hit at exactly t_max is reported.                     *)
C5_RangeOk(k, det, t) ==
    det # QZero =>
        /\ (QLe(t, QZero) \/ XGt(t, tri.t_max)) => ~TriHit(k)
        /\ TriHit(k) => /\ tri.res[k].t = t
                        /\ QGt(t, QZero)
                        /\ ~XGt(t, tri.t_max)
C5_RangeOfEdges(k, E) == C5_RangeOk(k, DetOf(E), QDiv(TScaledOf(E), DetOf(E)))
C5_HalfOpenInterval ==
    \A k \in 0..1 : TriDone(k) => C5_RangeOfEdges(k, TriScaled(k))

C5_Witness ==
    \E k \in 0..1 :
        /\ TriDone(k) /\ TriHit(k)
        /\ QLt(DetOf(TriScaled(k)), QZero)
        /\ tri.res[k].t = tri.t_max

---------------------------------------------------------------------------
(* SpecList: GeometricPrimitive::intersect and PrimitiveList::intersect    *)
(* (src/core/primitive.rs) for one ray.                                    *)
(*                                                                         *)
(* A member is a GeometricPrimitive [shape, material, alpha].  Its shape   *)
(* is given by what shape.intersect(ray, INFINITY) returns for the ray:    *)
(* None, or a hit [t, u] where u is hash_float of the hit point, a value   *)
(* of [0, 1] fixed by the point.                                           *)

MaxPrims == 3     \* the list holds up to MaxPrims primitives
MaxT == 3         \* shape hit distances range over 1..MaxT

ShapeHits ==
    {None} \cup {[some |-> TRUE, t |-> QI(t), u |-> u] :
                    t \in 1..MaxT, u \in {QZero, QOne}}
Alphas == {Q(1, 2), QOne}

(* GeometricPrimitive::new(shape, material, alpha); the first primitive    *)
(* of a scene is built without a material.                                 *)
GeometricPrimitiveNew(i, shape, alpha) ==
    [shape |-> shape,
     material |-> IF i = 1 THEN None ELSE [some |-> TRUE, id |-> i],
     alpha |-> alpha,
     id |-> i]

(* Mutant of GeometricPrimitiveIntersect: the superseded version, which    *)
(* after a rejected alpha test intersects its own shape again.             *)
GeometricPrimitiveIntersect_Reintersect(prim) ==
    IF IsSome(prim.shape)
    THEN IF QLt(prim.alpha, QOne) /\ QGt(prim.shape.u, prim.alpha)
         THEN [hit |-> None, calls |-> 2]
         ELSE [hit |-> [some |-> TRUE, t |-> prim.shape.t,
                        interaction |-> [prim |-> prim.id, u |-> prim.shape.u],
                        material |-> prim.material],
               calls |-> 1]
    ELSE [hit |-> None, calls |-> 1]

(* GeometricPrimitive::intersect: the value returned, and the number of    *)
(* shape.intersect calls made for it.                                      *)
GeometricPrimitiveIntersect(prim) ==
    IF IsSome(prim.shape)
    THEN IF QLt(prim.alpha, QOne) /\ QGt(prim.shape.u, prim.alpha)
         THEN [hit |-> None, calls |-> 1]
         ELSE [hit |-> [some |-> TRUE, t |-> prim.shape.t,
                        interaction |-> [prim |-> prim.id, u |-> prim.shape.u],
                        material |-> prim.material],
               calls |-> 1]
    ELSE [hit |-> None, calls |-> 1]

(* PrimitiveList::new and the start of intersect.                          *)
PrimitiveListStart(prims) ==
    [prims |-> prims,
     i |-> 1,
     closest_t |-> Inf,
     closest_hit |-> None,
     seen |-> << >>,
     calls |-> << >>,
     pc |-> "loop"]

PrimLists ==
    UNION {[1..n -> ShapeHits \X Alphas] : n \in 0..MaxPrims}

InitListState ==
    \E f \in PrimLists :
        lst = PrimitiveListStart(
                  [i \in DOMAIN f |-> GeometricPrimitiveNew(i, f[i][1], f[i][2])])

(* Mutant of ListStep: the comparison with closest_t is left out, so the   *)
(* last hit wins.                                                          *)
ListStep_LastWins(s, r) ==
    [s EXCEPT !.i = @ + 1,
              !.seen = Append(@, r.hit),
              !.calls = Append(@, r.calls),
              !.closest_t = IF IsSome(r.hit) THEN r.hit.t ELSE @,
              !.closest_hit = IF IsSome(r.hit) THEN r.hit ELSE @]

(* The body of the loop over the primitives, for the member result r.      *)
ListStep(s, r) ==
    [s EXCEPT !.i = @ + 1,
              !.seen = Append(@, r.hit),
              !.calls = Append(@, r.calls),
              !.closest_t = IF IsSome(r.hit) /\ XLt(r.hit.t, s.closest_t)
                            THEN r.hit.t ELSE @,
              !.closest_hit = IF IsSome(r.hit) /\ XLt(r.hit.t, s.closest_t)
                              THEN r.hit ELSE @]

(* One iteration: p.intersect(ray) for the next member.                    *)
ListVisit ==
    /\ lst # None
    /\ lst.pc = "loop"
    /\ lst.i <= Len(lst.prims)
    /\ lst' = ListStep(lst, GeometricPrimitiveIntersect(lst.prims[lst.i]))
    /\ UNCHANGED <<tri, pathVars, ph, call>>

(* The loop is over: closest_hit is returned.                              *)
ListReturn ==
    /\ lst # None
    /\ lst.pc = "loop"
    /\ lst.i > Len(lst.prims)
    /\ lst' = [lst EXCEPT !.pc = "done"]
    /\ UNCHANGED <<tri, pathVars, ph, call>>

InitList == InitListState /\ tri = None /\ IdlePath /\ ph = None /\ call = None

NextList == ListVisit \/ ListReturn

SpecList == InitList /\ [][NextList]_vars

ListDone == lst # None /\ lst.pc = "done"
(* members that reported a hit to the list                                 *)
Reporting == {i \in 1..Len(lst.seen) : IsSome(lst.seen[i])}
(* members whose shape hit was rejected by the alpha test                  *)
AlphaRejected ==
    {i \in 1..Len(lst.prims) :
        /\ IsSome(lst.prims[i].shape)
        /\ QLt(lst.prims[i].alpha, QOne)
        /\ QGt(lst.prims[i].shape.u, lst.prims[i].alpha)}
(* members whose shape was hit and not rejected                            *)
Remaining ==
    {i \in 1..Len(lst.prims) : IsSome(lst.prims[i].shape)} \ AlphaRejected

(* C6: PrimitiveList::intersect returns None exactly when no member        *)
(* reports a hit; otherwise its t is the minimum over the members' hits    *)
(* and its interaction and material are those of a member reporting that   *)
(* minimum, for every order of the primitives.                             *)
C6_ClosestHit ==
    ListDone =>
        /\ IsSome(lst.closest_hit) <=> Reporting # {}
        /\ IsSome(lst.closest_hit) =>
              /\ \A i \in Reporting : QLe(lst.closest_hit.t, lst.seen[i].t)
              /\ \E i \in Reporting : lst.seen[i] = lst.closest_hit

C6_Witness ==
    /\ ListDone
    /\ Len(lst.prims) = 3
    /\ Reporting = {1, 2, 3}
    /\ QGt(lst.seen[1].t, lst.seen[2].t)
    /\ QLt(lst.seen[2].t, lst.seen[3].t)
    /\ lst.closest_hit = lst.seen[2]

(* C7: a GeometricPrimitive with alpha < 1 that rejects its shape hit      *)
(* reports no hit after a single shape.intersect call, the list still      *)
(* returns the closest hit among the other primitives, and a primitive     *)
(* with alpha >= 1 never rejects a shape hit.                              *)
C7_AlphaReject ==
    ListDone =>
        /\ \A i \in AlphaRejected : ~IsSome(lst.seen[i]) /\ lst.calls[i] = 1
        /\ IsSome(lst.closest_hit) <=> Remaining # {}
        /\ IsSome(lst.closest_hit) =>
              /\ lst.closest_hit.interaction.prim \in Remaining
              /\ \A i \in Remaining :
                    QLe(lst.closest_hit.t, lst.prims[i].shape.t)
        /\ \A i \in 1..Len(lst.prims) :
              (QGe(lst.prims[i].alpha, QOne) /\ IsSome(lst.prims[i].shape))
                  => (IsSome(lst.seen[i]) /\ lst.seen[i].t = lst.prims[i].shape.t)

C7_Witness ==
    /\ ListDone
    /\ Len(lst.prims) = 3
    /\ AlphaRejected = {1}
    /\ Remaining = {2, 3}
    /\ QLt(lst.prims[1].shape.t, lst.prims[3].shape.t)
    /\ QLt(lst.prims[3].shape.t, lst.prims[2].shape.t)
    /\ lst.closest_hit.interaction.prim = 3

---------------------------------------------------------------------------
(* SpecPH: power_heuristic (src/core/integrator.rs) in binary32.           *)
(*                                                                         *)
(* The pdfs are 0 or powers of two, so that every f32 operation of the     *)
(* function has a result that is computed here exactly as IEEE-754         *)
(* round-to-nearest-even gives it, overflow and underflow included.  A     *)
(* value is zero, inf, NaN or m * 2^e.                                     *)

F32MinExp == -149     \* 2^-149 is the smallest positive f32
F32MaxExp == 127      \* 2^127 is the largest power of two in f32
F32Mant == 24         \* significand bits of f32

FZero == [k |-> "zero", m |-> 0, e |-> 0]
FInf == [k |-> "inf", m |-> 0, e |-> 0]
FNaN == [k |-> "nan", m |-> 0, e |-> 0]
FPow(e) == [k |-> "fin", m |-> 1, e |-> e]
FHalf == FPow(-1)

(* 2^e rounded to f32.                                                     *)
FRoundPow(e) ==
    IF e > F32MaxExp THEN FInf
    ELSE IF e < F32MinExp THEN FZero
    ELSE FPow(e)

(* nf as f32                                                               *)
I32AsF32(n) ==
    IF n = 0 THEN FZero ELSE IF n = 1 THEN FPow(0) ELSE FPow(1)

(* a * b for operands that are 0, inf, NaN or powers of two                *)
FMul(a, b) ==
    IF a.k = "nan" \/ b.k = "nan" THEN FNaN
    ELSE IF (a.k = "zero" /\ b.k = "inf") \/ (a.k = "inf" /\ b.k = "zero")
    THEN FNaN
    ELSE IF a.k = "zero" \/ b.k = "zero" THEN FZero
    ELSE IF a.k = "inf" \/ b.k = "inf" THEN FInf
    ELSE FRoundPow(a.e + b.e)

(* 2^hi + 2^lo, hi >= lo, rounded to f32                                   *)
FAddPow(hi, lo) ==
    IF hi = lo THEN FRoundPow(hi + 1)
    ELSE IF hi - lo < F32Mant
    THEN [k |-> "fin", m |-> 2 ^ (hi - lo) + 1, e |-> lo]
    ELSE FPow(hi)

(* a + b for operands that are 0, inf, NaN or powers of two                *)
FAdd(a, b) ==
    IF a.k = "nan" \/ b.k = "nan" THEN FNaN
    ELSE IF a.k = "inf" \/ b.k = "inf" THEN FInf
    ELSE IF a.k = "zero" THEN b
    ELSE IF b.k = "zero" THEN a
    ELSE IF a.e >= b.e THEN FAddPow(a.e, b.e) ELSE FAddPow(b.e, a.e)

(* round(2^24 * 2^d / (2^d + 1)): the significand of 2^d / (2^d + 1)       *)
FQuotMant(d) ==
    (2 ^ F32Mant) - ((2 ^ F32Mant) \div (2 ^ d + 1))
        - (IF 2 * ((2 ^ F32Mant) % (2 ^ d + 1)) > 2 ^ d + 1 THEN 1 ELSE 0)

(* 2^ea / (m * 2^es) with m = 1 or m = 2^d + 1, rounded to f32             *)
FDivFin(ea, m, es) ==
    IF m = 1 THEN FRoundPow(ea - es)
    ELSE [k |-> "fin",
          m |-> FQuotMant(CHOOSE d \in 1..F32Mant : 2 ^ d + 1 = m),
          e |-> ea - es - (CHOOSE d \in 1..F32Mant : 2 ^ d + 1 = m) - F32Mant]

(* a / s for a power of two (or 0, inf, NaN) over a sum of two such        *)
FDiv(a, s) ==
    IF a.k = "nan" \/ s.k = "nan" THEN FNaN
    ELSE IF (a.k = "inf" /\ s.k = "inf") \/ (a.k = "zero" /\ s.k = "zero")
    THEN FNaN
    ELSE IF a.k = "zero" \/ s.k = "inf" THEN FZero
    ELSE IF a.k = "inf" \/ s.k = "zero" THEN FInf
    ELSE FDivFin(a.e, s.m, s.e)

(* if ff + gg == 0.0 { 0.0 } else { ff / (ff + gg) }                       *)
PowerHeuristicRatio(ff, gg) ==
    IF FAdd(ff, gg) = FZero THEN FZero ELSE FDiv(ff, FAdd(ff, gg))

PowerHeuristicSquares(f, g) == PowerHeuristicRatio(FMul(f, f), FMul(g, g))

power_heuristic(nf, f_pdf, ng, g_pdf) ==
    PowerHeuristicSquares(FMul(I32AsF32(nf), f_pdf), FMul(I32AsF32(ng), g_pdf))

PdfExpMax == 80       \* pdfs range over 0 and 2^e, e in -PdfExpMax..PdfExpMax
Counts == {0, 1, 2}
Pdfs == {FZero} \cup {FPow(e) : e \in (0 - PdfExpMax)..PdfExpMax}

InitPHState ==
    \E nf \in Counts, ng \in Counts, f_pdf \in Pdfs, g_pdf \in Pdfs :
        ph = [nf |-> nf, f_pdf |-> f_pdf, ng |-> ng, g_pdf |-> g_pdf,
              pc |-> "call", w |-> FZero]

(* the call power_heuristic(nf, f_pdf, ng, g_pdf)                          *)
PowerHeuristicCall ==
    /\ ph # None
    /\ ph.pc = "call"
    /\ ph' = [ph EXCEPT !.pc = "done",
                        !.w = power_heuristic(ph.nf, ph.f_pdf, ph.ng, ph.g_pdf)]
    /\ UNCHANGED <<tri, lst, pathVars, call>>

InitPH == InitPHState /\ tri = None /\ lst = None /\ IdlePath /\ call = None

NextPH == PowerHeuristicCall

SpecPH == InitPH /\ [][NextPH]_vars

PHDone == ph # None /\ ph.pc = "done"

(* C10: power_heuristic(1, p, 1, p) is 0.5 for every p > 0, and            *)
(* power_heuristic(nf, 0, ng, 0) is 0 when both pdfs are 0.                *)
C10_HalfAndZero ==
    PHDone =>
        /\ (ph.nf = 1 /\ ph.ng = 1 /\ ph.f_pdf = ph.g_pdf /\ ph.f_pdf # FZero)
              => ph.w = FHalf
        /\ (ph.f_pdf = FZero /\ ph.g_pdf = FZero) => ph.w = FZero

(* The part of C10 that the code keeps: 0.5 whenever p * p is a finite     *)
(* non-zero f32 whose double is finite, and 0 when both pdfs are 0.        *)
C10_HalfInRange ==
    PHDone =>
        /\ (/\ ph.nf = 1 /\ ph.ng = 1 /\ ph.f_pdf = ph.g_pdf
            /\ ph.f_pdf # FZero
            /\ 2 * ph.f_pdf.e >= F32MinExp
            /\ 2 * ph.f_pdf.e < F32MaxExp)
              => ph.w = FHalf
        /\ (ph.f_pdf = FZero /\ ph.g_pdf = FZero) => ph.w = FZero

(* p = 2^-80: p * p underflows to 0 and the weight is 0, not 0.5.          *)
C10_UnderflowReached ==
    /\ PHDone /\ ph.nf = 1 /\ ph.ng = 1
    /\ ph.f_pdf = FPow(-80) /\ ph.g_pdf = FPow(-80)
    /\ ph.w = FZero

(* p = 2^64: p * p overflows to inf and the weight is NaN.                 *)
C10_OverflowReached ==
    /\ PHDone /\ ph.nf = 1 /\ ph.ng = 1
    /\ ph.f_pdf = FPow(64) /\ ph.g_pdf = FPow(64)
    /\ ph.w = FNaN

---------------------------------------------------------------------------
(* SpecPath: one path of the bounce loop of render                         *)
(* (src/core/integrator.rs).                                               *)
(*                                                                         *)
(* The scene, the materials, the lights, the BSDFs and the sampler are     *)
(* the loop's environment: what each call returns is drawn from a small    *)
(* set of values that the callee can return.  Everything the loop itself   *)
(* does with these values is computed as the code computes it.             *)

N_SPECTRUM_SAMPLES == 4     \* a SampledSpectrum is a 4-tuple of f32

SNew(v) == <<v, v, v, v>>
SZero == SNew(QZero)
SAdd(a, b) ==
    <<QAdd(a[1], b[1]), QAdd(a[2], b[2]), QAdd(a[3], b[3]), QAdd(a[4], b[4])>>
SMul(a, b) ==
    <<QMul(a[1], b[1]), QMul(a[2], b[2]), QMul(a[3], b[3]), QMul(a[4], b[4])>>
SScale(a, q) ==
    <<QMul(a[1], q), QMul(a[2], q), QMul(a[3], q), QMul(a[4], q)>>
(* values.iter().any(|&v| v > 0.0)                                         *)
SAnyPositive(a) == \E i \in 1..N_SPECTRUM_SAMPLES : QGt(a[i], QZero)
(* values.iter().all(|&v| v == 0.0)                                        *)
SAllZero(a) == \A i \in 1..N_SPECTRUM_SAMPLES : a[i] = QZero
(* values.iter().fold(0.0f32, |a, &b| a.max(b))                            *)
SMaxComponent(a) == QMax(QMax(QMax(QMax(QZero, a[1]), a[2]), a[3]), a[4])

(* power_heuristic in exact arithmetic, for pdfs whose squares stay in     *)
(* the f32 range.                                                          *)
PowerHeuristicExactRatio(ff, gg) ==
    IF QAdd(ff, gg) = QZero THEN QZero ELSE QDiv(ff, QAdd(ff, gg))

PowerHeuristicExact(nf, f_pdf, ng, g_pdf) ==
    PowerHeuristicExactRatio(
        QMul(QMul(QI(nf), f_pdf), QMul(QI(nf), f_pdf)),
        QMul(QMul(QI(ng), g_pdf), QMul(QI(ng), g_pdf)))

max_depth == 5

(* Materials: what emitted() and compute_scattering() return.  Matte and   *)
(* Emissive are the shipped ones; Glass stands for a Material that builds  *)
(* a BSDF over ThinDielectricBxDF.                                         *)
Material(le, bxdf) == [some |-> TRUE, le |-> le, bxdf |-> bxdf]
Materials ==
    {Material(SZero, "Diffuse"),
     Material(SZero, "ThinDielectric"),
     Material(SNew(QOne), "None"),
     Material(<<QI(2), QZero, QZero, QZero>>, "None")}

(* scene.intersect(&ray): None or Some((_, interaction, material_opt))     *)
SceneHits == {None} \cup {[some |-> TRUE, material |-> m] : m \in Materials \cup {None}}

(* sampler.get_2d().x                                                      *)
Us == {QZero, Q(1, 2)}

(* the lights of the scene, by light.is_delta()                            *)
LightLists == {<< >>, <<TRUE, FALSE>>}

(* 1e-3, the shadow-ray margin                                             *)
ShadowEps == Q(1, 1000)

(* light.sample_li(&interaction, u_light): None or a LightLiSample, with   *)
(* light_dist = (ls.p_light - interaction.core.p).length()                 *)
LightSamples ==
    {None} \cup {[some |-> TRUE, l |-> l, pdf |-> pdf, light_dist |-> QOne] :
                    l \in {SZero, SNew(QOne)}, pdf \in {QZero, QI(2)}}

(* scene.intersect(&shadow_ray): None or a hit at t_occ                    *)
ShadowHits ==
    {None} \cup {[some |-> TRUE, t |-> t] : t \in {Q(1, 2), Q(999, 1000)}}

(* n_vec.dot(ls.wi) before .max(0.0)                                       *)
LightCosines == {Q(-1, 2), Q(1, 2)}

(* Mutant of BsdfF: the delta lobe evaluates to a non-zero value.          *)
BsdfF_DeltaNonZero(bxdf) ==
    SNew(Q(1, 4))

(* bsdf.f(wo, ls.wi): r * (1 / PI) for Diffuse, zero for ThinDielectric    *)
BsdfF(bxdf) ==
    IF bxdf = "ThinDielectric" THEN SZero ELSE SNew(Q(1, 4))

(* bsdf.pdf(wo, ls.wi): positive for Diffuse when wi is above the surface, *)
(* zero for ThinDielectric                                                 *)
BsdfPdf(bxdf, cos_raw) ==
    IF bxdf = "ThinDielectric" THEN QZero
    ELSE IF QLe(cos_raw, QZero) THEN QZero ELSE QMul(cos_raw, Q(1, 2))

(* bsdf.sample_f(wo, u_bsdf): None or Some((f, wi, pdf, is_delta)), with   *)
(* cos_raw = wi.dot(n_vec) before .max(0.0)                                *)
BsdfSample(f, pdf, cos_raw, is_delta) ==
    [some |-> TRUE, f |-> f, pdf |-> pdf, cos_raw |-> cos_raw, is_delta |-> is_delta]

BsdfSamples(bxdf) ==
    IF bxdf = "ThinDielectric"
    THEN {BsdfSample(SNew(QOne), Q(1, 2), Q(1, 2), TRUE),
          BsdfSample(SNew(QI(2)), Q(1, 2), Q(-1, 2), TRUE)}
    ELSE {None,
          BsdfSample(SNew(Q(1, 4)), Q(1, 4), Q(1, 2), FALSE),
          BsdfSample(SNew(Q(1, 4)), QZero, QZero, FALSE),
          BsdfSample(SZero, Q(1, 4), Q(1, 2), FALSE)}

InitPathState ==
    /\ lights \in LightLists
    /\ pc = "trace" /\ bounces = 0 /\ iters = 0 /\ cause = "none"
    /\ L = SNew(QZero) /\ beta = SNew(QOne) /\ specular_bounce = FALSE
    /\ hit = None /\ nee = None /\ sample = None

(* let hit = scene.intersect(&ray); a miss ends the path.                  *)
Trace ==
    /\ pc = "trace"
    /\ \E h \in SceneHits :
          /\ hit' = h
          /\ pc' = IF IsSome(h) THEN "emit" ELSE "done"
          /\ cause' = IF IsSome(h) THEN cause ELSE "miss"
    /\ iters' = iters + 1
    /\ UNCHANGED <<bounces, L, beta, specular_bounce, nee, sample, lights>>
    /\ UNCHANGED <<tri, lst, ph, call>>

(* Mutant of EmissionGate: emission is added at every bounce.              *)
EmissionGate_Always(b, spec) ==
    TRUE

(* bounces == 0 || specular_bounce                                         *)
EmissionGate(b, spec) ==
    b = 0 \/ spec

(* l after the surface-emission block                                      *)
Emitted(l, bt, material, b, spec) ==
    IF IsSome(material) /\ SAnyPositive(material.le) /\ EmissionGate(b, spec)
    THEN SAdd(l, SMul(bt, material.le))
    ELSE l

(* Surface emission, then the two breaks: no material, no BSDF.            *)
Emit ==
    /\ pc = "emit"
    /\ L' = Emitted(L, beta, hit.material, bounces, specular_bounce)
    /\ pc' = IF IsSome(hit.material) /\ hit.material.bxdf # "None"
             THEN "nee" ELSE "done"
    /\ cause' = IF ~IsSome(hit.material) THEN "no_material"
                ELSE IF hit.material.bxdf = "None" THEN "no_bsdf"
                ELSE cause
    /\ UNCHANGED <<bounces, beta, specular_bounce, hit, nee, sample, iters, lights>>
    /\ UNCHANGED <<tri, lst, ph, call>>

(* Mutant of LightIdx: the index is not clamped to the last light.         *)
LightIdx_Unclamped(u, n) ==
    (u[1] * n) \div u[2]

(* light_idx = (u * n_lights).floor().min(n_lights - 1)                    *)
LightIdx(u, n) ==
    IF (u[1] * n) \div u[2] < n - 1 THEN (u[1] * n) \div u[2] ELSE n - 1

(* Mutant of Occluded: no shadow-ray hit occludes.                         *)
Occluded_Never(shadow, light_dist) ==
    FALSE

(* occluded: t_occ < light_dist - 1e-3 when the shadow ray hits            *)
Occluded(shadow, light_dist) ==
    IF IsSome(shadow) THEN QLt(shadow.t, QSub(light_dist, ShadowEps)) ELSE FALSE

(* The inputs of one light sample: s = [is_delta, ls, shadow, cos_raw,     *)
(* bxdf, n_lights].                                                        *)
NeeShadowTraced(s) ==
    /\ IsSome(s.ls)
    /\ ~SAllZero(s.ls.l)
    /\ (s.is_delta \/ QGt(s.ls.pdf, QZero))

NeeUnoccluded(s) ==
    NeeShadowTraced(s) /\ ~Occluded(s.shadow, s.ls.light_dist)

(* the innermost block is reached: f is non-zero and cos_theta > 0         *)
NeeLit(s) ==
    /\ NeeUnoccluded(s)
    /\ ~SAllZero(BsdfF(s.bxdf))
    /\ QGt(QMax(s.cos_raw, QZero), QZero)

(* pdf_light = ls_pdf_solid * pdf_light_choice                             *)
NeePdfLight(s) == QMul(s.ls.pdf, QDiv(QOne, QI(s.n_lights)))

NeeWeight(s) ==
    PowerHeuristicExact(1, NeePdfLight(s), 1, BsdfPdf(s.bxdf, s.cos_raw))

(* beta * f * ls.l * cos_theta                                             *)
NeeDeltaTerm(bt, s) ==
    SScale(SMul(SMul(bt, BsdfF(s.bxdf)), s.ls.l), QMax(s.cos_raw, QZero))

(* beta * f * ls.l * (cos_theta / pdf_light) * weight_light                *)
NeeAreaTerm(bt, s) ==
    SScale(SScale(SMul(SMul(bt, BsdfF(s.bxdf)), s.ls.l),
                  QDiv(QMax(s.cos_raw, QZero), NeePdfLight(s))),
           NeeWeight(s))

(* l after the light sample                                                *)
NeeL(l, bt, s) ==
    IF ~NeeLit(s) THEN l
    ELSE IF s.is_delta THEN SAdd(l, NeeDeltaTerm(bt, s))
    ELSE IF QGt(NeePdfLight(s), QZero) THEN SAdd(l, NeeAreaTerm(bt, s))
    ELSE l

(* What the block evaluated for the sample: the shadow-ray hit only when   *)
(* the shadow ray was traced, the MIS weight only when power_heuristic     *)
(* was called; l_in is l on entry.                                         *)
NeeRecord(l, s, idx) ==
    [some |-> TRUE,
     light_idx |-> idx,
     is_delta |-> s.is_delta,
     ls |-> s.ls,
     shadow_traced |-> NeeShadowTraced(s),
     shadow |-> IF NeeShadowTraced(s) THEN s.shadow ELSE None,
     cos_raw |-> IF NeeUnoccluded(s) /\ ~SAllZero(BsdfF(s.bxdf))
                 THEN [some |-> TRUE, v |-> s.cos_raw] ELSE None,
     weight |-> IF NeeLit(s) /\ ~s.is_delta
                THEN [some |-> TRUE, v |-> NeeWeight(s)] ELSE None,
     l_in |-> l]

NeeInputs(idx, ls, shadow, cos_raw) ==
    [is_delta |-> lights[idx + 1], ls |-> ls, shadow |-> shadow,
     cos_raw |-> cos_raw, bxdf |-> hit.material.bxdf, n_lights |-> Len(lights)]

NeeSample(idx, ls, shadow, cos_raw) ==
    /\ nee' = NeeRecord(L, NeeInputs(idx, ls, shadow, cos_raw), idx)
    /\ L' = NeeL(L, beta, NeeInputs(idx, ls, shadow, cos_raw))

(* Next-event estimation: one light is chosen and sampled.                 *)
NEE ==
    /\ pc = "nee"
    /\ IF lights = << >>
       THEN nee' = None /\ L' = L
       ELSE \E u \in Us, ls \in LightSamples, shadow \in ShadowHits,
               cos_raw \in LightCosines :
               NeeSample(LightIdx(u, Len(lights)), ls, shadow, cos_raw)
    /\ pc' = "sample"
    /\ UNCHANGED <<bounces, beta, specular_bounce, hit, sample, cause, iters, lights>>
    /\ UNCHANGED <<tri, lst, ph, call>>

(* Mutant of SampleCause: the test of the cosine is left out.              *)
SampleCause_NoCosine(bs) ==
    IF ~IsSome(bs) THEN "no_sample"
    ELSE IF bs.pdf = QZero \/ SAllZero(bs.f) THEN "zero_pdf_or_spectrum"
    ELSE "none"

(* why the BSDF-sampling block breaks, "none" when it does not             *)
SampleCause(bs) ==
    IF ~IsSome(bs) THEN "no_sample"
    ELSE IF bs.pdf = QZero \/ SAllZero(bs.f) THEN "zero_pdf_or_spectrum"
    ELSE IF QMax(bs.cos_raw, QZero) = QZero THEN "zero_cosine"
    ELSE "none"

(* Mutant of Throughput: the cosine is left out.                           *)
Throughput_NoCosine(bt, bs) ==
    SScale(SMul(bt, bs.f), QDiv(QOne, bs.pdf))

(* beta * f * (cos_theta / pdf)                                            *)
Throughput(bt, bs) ==
    SScale(SMul(bt, bs.f), QDiv(QMax(bs.cos_raw, QZero), bs.pdf))

(* q = (1.0 - max_component).max(0.05).min(0.95)                           *)
RouletteQ(bt) ==
    QMin(QMax(QSub(QOne, SMaxComponent(bt)), Q(1, 20)), Q(19, 20))

(* Mutant of RouletteKills: the roulette starts one bounce early.          *)
RouletteKills_Early(b, bt, u) ==
    b > 2 /\ QLt(u, RouletteQ(bt))

(* bounces > 3 && sampler.get_2d().x < q                                   *)
RouletteKills(b, bt, u) ==
    b > 3 /\ QLt(u, RouletteQ(bt))

(* beta * (1.0 / (1.0 - q)) when bounces > 3                               *)
RouletteScale(b, bt) ==
    IF b > 3 THEN SScale(bt, QDiv(QOne, QSub(QOne, RouletteQ(bt)))) ELSE bt

(* Mutant of LoopContinues: the bound is tested one iteration late.        *)
LoopContinues_OneMore(b) ==
    b < max_depth

(* for bounces in 0..max_depth: another iteration follows bounce b         *)
LoopContinues(b) ==
    b + 1 < max_depth

SampleBreak(bs, c, bt) ==
    /\ pc' = "done" /\ cause' = c /\ beta' = bt /\ sample' = bs
    /\ UNCHANGED <<bounces, L, specular_bounce, hit, nee, iters, lights>>

SampleContinue(bs, bt) ==
    /\ beta' = bt /\ sample' = bs
    /\ specular_bounce' = bs.is_delta
    /\ bounces' = IF LoopContinues(bounces) THEN bounces + 1 ELSE bounces
    /\ pc' = IF LoopContinues(bounces) THEN "trace" ELSE "done"
    /\ cause' = IF LoopContinues(bounces) THEN cause ELSE "max_depth"
    /\ hit' = None /\ nee' = None
    /\ UNCHANGED <<L, iters, lights>>

SampleStep(bs, u) ==
    IF SampleCause(bs) # "none" THEN SampleBreak(bs, SampleCause(bs), beta)
    ELSE IF RouletteKills(bounces, Throughput(beta, bs), u)
    THEN SampleBreak(bs, "rr_kill", Throughput(beta, bs))
    ELSE SampleContinue(bs, RouletteScale(bounces, Throughput(beta, bs)))

(* BSDF sampling, throughput update, Russian roulette, next ray.           *)
Sample ==
    /\ pc = "sample"
    /\ \E bs \in BsdfSamples(hit.material.bxdf), u \in Us : SampleStep(bs, u)
    /\ UNCHANGED <<tri, lst, ph, call>>

InitPath == InitPathState /\ tri = None /\ lst = None /\ ph = None /\ call = None

NextPath == Trace \/ Emit \/ NEE \/ Sample

SpecPath == InitPath /\ [][NextPath]_vars

PathDone == pc = "done"

(* C1: the emission step adds beta * Le to L only at bounce 0 or when the  *)
(* BSDF sample of the preceding bounce was flagged is_delta; at every      *)
(* other bounce it leaves L unchanged.                                     *)
C1_EmissionGate ==
    [][pc = "emit" =>
          /\ L' # L => (bounces = 0 \/ (IsSome(sample) /\ sample.is_delta))
          /\ L' # L => L' = SAdd(L, SMul(beta, hit.material.le))
          /\ (bounces # 0 /\ ~(IsSome(sample) /\ sample.is_delta)) => L' = L]_vars

(* an emitter hit right after a delta bounce: its emission is in L         *)
C1_Witness ==
    /\ PathDone /\ cause = "no_bsdf" /\ lights = << >>
    /\ bounces = 1 /\ IsSome(sample) /\ sample.is_delta
    /\ SAnyPositive(hit.material.le)
    /\ L = SMul(beta, hit.material.le)

TerminalCauses ==
    {"miss", "no_material", "no_bsdf", "no_sample", "zero_pdf_or_spectrum",
     "zero_cosine", "rr_kill", "max_depth"}

(* the positions in the loop body, each with a step to take                *)
LoopPositions == {"trace", "emit", "nee", "sample"}

(* the number of steps the loop can still take, at most                    *)
PathRank ==
    IF PathDone THEN 0
    ELSE 4 * (max_depth - bounces)
           + (IF pc = "trace" THEN 4 ELSE IF pc = "emit" THEN 3
              ELSE IF pc = "nee" THEN 2 ELSE 1)

(* C2: every path ends, after at most max_depth scene intersections of     *)
(* the loop, and it ends before the loop is exhausted only by a miss, a    *)
(* hit without material or BSDF, an absent / zero-pdf / zero-spectrum /    *)
(* zero-cosine BSDF sample, or a Russian-roulette kill.  Every step        *)
(* lowers PathRank, so no path runs forever, and a path that is not done   *)
(* is at a position of the loop body.                                      *)
C2_Termination ==
    /\ [](/\ iters <= max_depth
          /\ PathDone => cause \in TerminalCauses
          /\ (PathDone /\ cause = "max_depth") => iters = max_depth
          /\ ~PathDone => (cause = "none" /\ pc \in LoopPositions))
    /\ [][PathRank' < PathRank]_vars

C2_Witness ==
    PathDone /\ cause = "max_depth" /\ iters = max_depth /\ bounces = max_depth - 1

(* C8: next-event estimation adds to L only when a shadow ray was traced   *)
(* for the light sample, and a shadow-ray hit at t_occ < light_dist - 1e-3 *)
(* leaves L unchanged, for delta and for area lights.                      *)
C8_ShadowRay ==
    (pc = "sample" /\ IsSome(nee)) =>
        /\ L # nee.l_in => nee.shadow_traced
        /\ (/\ nee.shadow_traced
            /\ IsSome(nee.shadow)
            /\ QLt(nee.shadow.t, QSub(nee.ls.light_dist, ShadowEps)))
              => L = nee.l_in

(* an area-light sample that is blocked at half the light distance         *)
C8_Witness ==
    /\ pc = "sample" /\ IsSome(nee) /\ ~nee.is_delta
    /\ nee.shadow_traced /\ IsSome(nee.shadow)
    /\ QLt(nee.shadow.t, QSub(nee.ls.light_dist, ShadowEps))
    /\ hit.material.bxdf = "Diffuse"
    /\ L = nee.l_in

(* C9: at a bounce whose BSDF is the ThinDielectric delta lobe, next-event *)
(* estimation adds nothing to L and calls power_heuristic for no light     *)
(* sample, and the lobe's own sample updates beta by f * cos / pdf alone.  *)
C9_DeltaLobe ==
    /\ []((pc = "sample" /\ hit.material.bxdf = "ThinDielectric" /\ IsSome(nee))
             => (L = nee.l_in /\ ~IsSome(nee.weight)))
    /\ [][(pc = "sample" /\ hit.material.bxdf = "ThinDielectric" /\ pc' = "trace")
             => (/\ L' = L
                 /\ sample'.is_delta
                 /\ beta' = RouletteScale(bounces, Throughput(beta, sample')))]_vars

(* a lit, unoccluded delta-light sample at a ThinDielectric hit            *)
C9_Witness ==
    /\ pc = "sample" /\ hit.material.bxdf = "ThinDielectric"
    /\ IsSome(nee) /\ nee.is_delta
    /\ nee.shadow_traced /\ ~IsSome(nee.shadow)
    /\ L = nee.l_in

---------------------------------------------------------------------------
(* SpecFr: fr_dielectric (src/core/reflection.rs).                         *)
(*                                                                         *)
(* The function takes two square roots.  The arguments are drawn from the  *)
(* cosines n/5 and the indices n/d for which both radicands are squares    *)
(* of rationals (3-4-5 triangles), so that the rational model follows the  *)
(* function through every branch without a rounded root.                   *)

RECURSIVE ISqrtFrom(_, _)
ISqrtFrom(n, k) == IF k * k >= n THEN k ELSE ISqrtFrom(n, k + 1)

(* the least k with k * k >= n                                             *)
ISqrt(n) == ISqrtFrom(n, 0)

IsSquare(q) ==
    /\ q[1] >= 0
    /\ ISqrt(q[1]) * ISqrt(q[1]) = q[1]
    /\ ISqrt(q[2]) * ISqrt(q[2]) = q[2]

(* f32::sqrt on the square of a rational                                   *)
QSqrt(q) == <<ISqrt(q[1]), ISqrt(q[2])>>

(* clamp(val, min, max)                                                    *)
Clamp(val, min, max) ==
    IF QLt(val, min) THEN min ELSE IF QGt(val, max) THEN max ELSE val

(* Mutant of FrEtaI: the indices are not swapped for a negative cosine.    *)
FrEtaI_NoSwap(c, eta_i, eta_t) ==
    eta_i

(* eta_i_eff, for the clamped cosine c                                     *)
FrEtaI(c, eta_i, eta_t) ==
    IF QLt(c, QZero) THEN eta_t ELSE eta_i

(* Mutant of FrEtaT: only eta_i_eff takes part in the swap.                *)
FrEtaT_NoSwap(c, eta_i, eta_t) ==
    eta_t

(* eta_t_eff, for the clamped cosine c                                     *)
FrEtaT(c, eta_i, eta_t) ==
    IF QLt(c, QZero) THEN eta_i ELSE eta_t

(* cos_theta_i after the swap: cos_theta_i.abs()                           *)
FrCos(c) ==
    IF QLt(c, QZero) THEN QAbs(c) ELSE c

(* (1.0 - x * x).max(0.0), the radicand of both roots                      *)
FrRadicand(x) == QMax(QSub(QOne, QMul(x, x)), QZero)

(* sin_theta_t = (eta_i_eff / eta_t_eff) * sin_theta_i                     *)
FrSinT(c, ei, et) == QMul(QDiv(ei, et), QSqrt(FrRadicand(c)))

(* r_parl and r_perp                                                       *)
FrParl(c, ei, et, ct) ==
    QDiv(QSub(QMul(et, c), QMul(ei, ct)), QAdd(QMul(et, c), QMul(ei, ct)))

FrPerp(c, ei, et, ct) ==
    QDiv(QSub(QMul(ei, c), QMul(et, ct)), QAdd(QMul(ei, c), QMul(et, ct)))

(* (r_parl * r_parl + r_perp * r_perp) / 2.0                               *)
FrUnpolarized(rp, rs) == QDiv(QAdd(QMul(rp, rp), QMul(rs, rs)), QI(2))

FrQuotients(c, ei, et, ct) ==
    FrUnpolarized(FrParl(c, ei, et, ct), FrPerp(c, ei, et, ct))

(* From the test for total internal reflection on: the value returned,     *)
(* and whether the Fresnel quotients were evaluated for it.                *)
FrFromSinT(c, ei, et, st) ==
    IF QGe(st, QOne)
    THEN [v |-> QOne, quotients |-> FALSE]
    ELSE [v |-> FrQuotients(c, ei, et, QSqrt(FrRadicand(st))), quotients |-> TRUE]

FrSwapped(c, ei, et) == FrFromSinT(c, ei, et, FrSinT(c, ei, et))

FrClamped(c, eta_i, eta_t) ==
    FrSwapped(FrCos(c), FrEtaI(c, eta_i, eta_t), FrEtaT(c, eta_i, eta_t))

FrDielectricRun(cos_theta_i, eta_i, eta_t) ==
    FrClamped(Clamp(cos_theta_i, QI(-1), QOne), eta_i, eta_t)

fr_dielectric(cos_theta_i, eta_i, eta_t) ==
    FrDielectricRun(cos_theta_i, eta_i, eta_t).v

EtaMax == 4       \* the indices are the fractions n/d with n, d in 1..EtaMax

Etas == {Q(n, d) : n \in 1..EtaMax, d \in 1..EtaMax}
(* cosines n/5, two of them outside [-1, 1]                                *)
Cosines == {Q(n, 5) : n \in -6..6}

(* both radicands of fr_dielectric(c, a, b) are squares                    *)
FrExactAbs(c, ei, et) ==
    /\ IsSquare(FrRadicand(c))
    /\ (QGe(FrSinT(c, ei, et), QOne) \/ IsSquare(FrRadicand(FrSinT(c, ei, et))))

FrExact(c, a, b) ==
    FrExactAbs(QAbs(Clamp(c, QI(-1), QOne)),
               IF QLt(c, QZero) THEN b ELSE a,
               IF QLt(c, QZero) THEN a ELSE b)

FrInputs ==
    {x \in Cosines \X Etas \X Etas : FrExact(x[1], x[2], x[3])}

InitFrState ==
    \E x \in FrInputs :
        call = [fn |-> "fr_dielectric", cos_theta_i |-> x[1],
                eta_i |-> x[2], eta_t |-> x[3],
                done |-> {}, res |-> <<None, None>>]

(* call 0 is fr_dielectric(c, a, b), call 1 is fr_dielectric(-c, b, a)     *)
FrCall(k) ==
    /\ call # None
    /\ call.fn = "fr_dielectric"
    /\ k \notin call.done
    /\ call' = [call EXCEPT
                  !.done = @ \cup {k},
                  !.res[k + 1] =
                      IF k = 0
                      THEN FrDielectricRun(call.cos_theta_i, call.eta_i, call.eta_t)
                      ELSE FrDielectricRun(QNeg(call.cos_theta_i), call.eta_t,
                                           call.eta_i)]
    /\ UNCHANGED <<tri, lst, pathVars, ph>>

InitFr == InitFrState /\ tri = None /\ lst = None /\ IdlePath /\ ph = None

NextFr == \E k \in 0..1 : FrCall(k)

SpecFr == InitFr /\ [][NextFr]_vars

FrDone(k) == call # None /\ call.fn = "fr_dielectric" /\ k \in call.done

(* Snell's law for the call's arguments, written out from the definition:  *)
(* the indices are exchanged when the cosine is negative.                  *)
SnellSinT ==
    IF QLt(call.cos_theta_i, QZero)
    THEN QMul(QDiv(call.eta_t, call.eta_i),
              QSqrt(FrRadicand(Clamp(call.cos_theta_i, QI(-1), QOne))))
    ELSE QMul(QDiv(call.eta_i, call.eta_t),
              QSqrt(FrRadicand(Clamp(call.cos_theta_i, QI(-1), QOne))))

(* C14: fr_dielectric returns exactly 1.0 whenever sin(theta_t) =          *)
(* (eta_i / eta_t) * sin(theta_i), taken after the index swap for a        *)
(* negative cosine, is >= 1, and then does not evaluate the Fresnel        *)
(* quotients.                                                              *)
C14_TotalInternalReflection ==
    (FrDone(0) /\ QGe(SnellSinT, QOne)) =>
        (call.res[1].v = QOne /\ ~call.res[1].quotients)

(* leaving glass (index 3/2) at cos = -3/5: sin(theta_t) = 6/5             *)
C14_Witness ==
    /\ FrDone(0)
    /\ call.cos_theta_i = Q(-3, 5) /\ call.eta_i = QOne /\ call.eta_t = Q(3, 2)
    /\ QGe(SnellSinT, QOne)
    /\ call.res[1].v = QOne

(* C15: fr_dielectric(c, a, b) = fr_dielectric(-c, b, a) for every cosine  *)
(* c, c = 0 included, and all positive indices a, b.                       *)
C15_SwapSymmetry ==
    (FrDone(0) /\ FrDone(1)) => call.res[1].v = call.res[2].v

(* a partial reflection, 0 < F < 1, away from normal incidence             *)
C15_Witness ==
    /\ FrDone(0) /\ FrDone(1)
    /\ call.cos_theta_i = Q(4, 5) /\ call.eta_i = QOne /\ call.eta_t = Q(3, 4)
    /\ call.res[1].quotients /\ call.res[2].quotients
    /\ QGt(call.res[1].v, QZero) /\ QLt(call.res[1].v, QOne)
    /\ call.res[1].v = call.res[2].v

---------------------------------------------------------------------------
(* SpecThin: ThinDielectricBxDF (src/core/bsdf.rs): f, pdf and sample_f.   *)
(*                                                                         *)
(* For thickness > 0 the reflectance of each wavelength is                 *)
(* (4 * F * s * s).clamp(0, 1) with s the sine of half the phase; the four *)
(* values s * s are drawn from [0, 1].                                     *)

(* ThinDielectricBxDF::f                                                   *)
ThinF(bxdf, wo, wi) == SNew(QZero)

(* ThinDielectricBxDF::pdf                                                 *)
ThinPdf(bxdf, wo, wi) == QZero

(* Mutant of ThinWindowReflectance: the single-interface reflectance.      *)
ThinWindowReflectance_Single(f) ==
    f

(* r_val = (2.0 * f) / (1.0 + f)                                           *)
ThinWindowReflectance(f) ==
    QDiv(QMul(QI(2), f), QAdd(QOne, f))

(* r_coherent.clamp(0.0, 1.0) with r_coherent = 4.0 * f * s * s            *)
ThinBubbleReflectance(f, s2) ==
    Clamp(QMul(QMul(QI(4), f), s2), QZero, QOne)

(* r_spectrum                                                              *)
ThinRSpectrum(bxdf, f, sin2) ==
    IF QGt(bxdf.thickness, QZero)
    THEN <<ThinBubbleReflectance(f, sin2[1]), ThinBubbleReflectance(f, sin2[2]),
           ThinBubbleReflectance(f, sin2[3]), ThinBubbleReflectance(f, sin2[4])>>
    ELSE SNew(ThinWindowReflectance(f))

(* t_spectrum = 1 - r_spectrum in every component                          *)
ThinTSpectrum(r) ==
    <<QSub(QOne, r[1]), QSub(QOne, r[2]), QSub(QOne, r[3]), QSub(QOne, r[4])>>

(* r_prob = (r[0] + r[1] + r[2]) / 3.0                                     *)
ThinRProb(r) == QDiv(QAdd(QAdd(r[1], r[2]), r[3]), QI(3))

(* Mutant of ThinReflect: the direction is not mirrored.                   *)
ThinReflect_Unmirrored(wo) ==
    wo

(* Vector3 { x: -wo.x, y: -wo.y, z: wo.z }                                 *)
ThinReflect(wo) ==
    V3(QNeg(wo.x), QNeg(wo.y), wo.z)

(* Mutant of ThinSampleFrom: reflection also when u.x equals r_prob, the   *)
(* spectra returned without their weights.                                 *)
ThinSampleFrom_Inclusive(r, r_prob, wo, u) ==
    IF QLe(u, r_prob)
    THEN [some |-> TRUE, f |-> r,
          wi |-> ThinReflect(wo), pdf |-> r_prob, is_delta |-> TRUE]
    ELSE [some |-> TRUE, f |-> ThinTSpectrum(r),
          wi |-> VNeg(wo), pdf |-> QSub(QOne, r_prob), is_delta |-> TRUE]

(* the two returns of sample_f, chosen by u.x < r_prob                     *)
ThinSampleFrom(r, r_prob, wo, u) ==
    IF QLt(u, r_prob)
    THEN [some |-> TRUE, f |-> SScale(r, QDiv(QOne, r_prob)),
          wi |-> ThinReflect(wo), pdf |-> r_prob, is_delta |-> TRUE]
    ELSE [some |-> TRUE,
          f |-> SScale(ThinTSpectrum(r), QDiv(QOne, QSub(QOne, r_prob))),
          wi |-> VNeg(wo), pdf |-> QSub(QOne, r_prob), is_delta |-> TRUE]

ThinSampleSpectrum(r, wo, u) == ThinSampleFrom(r, ThinRProb(r), wo, u)

(* ThinDielectricBxDF::sample_f(wo, u), u the first coordinate of the      *)
(* sample point                                                            *)
ThinSampleF(bxdf, wo, u, sin2) ==
    ThinSampleSpectrum(
        ThinRSpectrum(bxdf, fr_dielectric(wo.z, QOne, bxdf.eta), sin2), wo, u)

UDen == 4         \* sample coordinates are the fractions n/UDen in [0, 1)

UnitUs == {Q(n, UDen) : n \in 0..(UDen - 1)}

(* unit directions in the local frame, cos(theta) = z                      *)
LocalDirs ==
    {V3(QZero, QZero, QOne), V3(QZero, QZero, QI(-1)),
     V3(Q(3, 5), QZero, Q(4, 5)), V3(QZero, Q(-4, 5), Q(3, 5)),
     V3(Q(4, 5), QZero, Q(-3, 5)), V3(QZero, Q(-3, 5), Q(-4, 5)),
     V3(Q(-3, 5), Q(4, 5), QZero)}

(* ThinDielectricBxDF::new(eta, thickness): a window, or a 500 nm bubble   *)
ThinBxdfs ==
    {[eta |-> eta, thickness |-> th] : eta \in Etas, th \in {QZero, QI(500)}}

(* s * s for the four wavelengths                                          *)
SinSquares ==
    {SNew(QZero), SNew(QOne), <<Q(1, 4), Q(1, 4), Q(1, 4), QOne>>,
     <<QZero, Q(1, 4), QOne, QOne>>}

ThinInputs ==
    {x \in ThinBxdfs \X LocalDirs \X LocalDirs \X UnitUs \X SinSquares :
        /\ FrExact(x[2].z, QOne, x[1].eta)
        /\ (x[1].thickness = QZero => x[5] = SNew(QZero))}

InitThinState ==
    \E x \in ThinInputs :
        call = [fn |-> "ThinDielectricBxDF", bxdf |-> x[1], wo |-> x[2],
                wi |-> x[3], u |-> x[4], sin2 |-> x[5],
                done |-> {}, f |-> None, pdf |-> None, sample |-> None]

ThinCallF ==
    /\ call # None /\ call.fn = "ThinDielectricBxDF" /\ "f" \notin call.done
    /\ call' = [call EXCEPT !.done = @ \cup {"f"},
                            !.f = [some |-> TRUE,
                                   v |-> ThinF(call.bxdf, call.wo, call.wi)]]
    /\ UNCHANGED <<tri, lst, pathVars, ph>>

ThinCallPdf ==
    /\ call # None /\ call.fn = "ThinDielectricBxDF" /\ "pdf" \notin call.done
    /\ call' = [call EXCEPT !.done = @ \cup {"pdf"},
                            !.pdf = [some |-> TRUE,
                                     v |-> ThinPdf(call.bxdf, call.wo, call.wi)]]
    /\ UNCHANGED <<tri, lst, pathVars, ph>>

ThinCallSampleF ==
    /\ call # None /\ call.fn = "ThinDielectricBxDF" /\ "sample_f" \notin call.done
    /\ call' = [call EXCEPT !.done = @ \cup {"sample_f"},
                            !.sample = ThinSampleF(call.bxdf, call.wo, call.u,
                                                   call.sin2)]
    /\ UNCHANGED <<tri, lst, pathVars, ph>>

InitThin == InitThinState /\ tri = None /\ lst = None /\ IdlePath /\ ph = None

NextThin == ThinCallF \/ ThinCallPdf \/ ThinCallSampleF

SpecThin == InitThin /\ [][NextThin]_vars

ThinDone(op) == call # None /\ call.fn = "ThinDielectricBxDF" /\ op \in call.done

(* C11: for ThinDielectric, f is the zero spectrum and pdf is 0 for every  *)
(* pair of directions, and every sample_f call returns a sample with       *)
(* is_delta = true whose direction is the mirror reflection                *)
(* (-wo.x, -wo.y, wo.z) or the transmission -wo.                           *)
C11_DeltaOnly ==
    /\ ThinDone("f") => call.f.v = <<QZero, QZero, QZero, QZero>>
    /\ ThinDone("pdf") => call.pdf.v = QZero
    /\ ThinDone("sample_f") =>
          /\ IsSome(call.sample)
          /\ call.sample.is_delta
          /\ \/ call.sample.wi = V3(QNeg(call.wo.x), QNeg(call.wo.y), call.wo.z)
             \/ call.sample.wi = V3(QNeg(call.wo.x), QNeg(call.wo.y), QNeg(call.wo.z))

(* a reflection off a bubble, away from the normal                         *)
C11_Witness ==
    /\ ThinDone("f") /\ ThinDone("pdf") /\ ThinDone("sample_f")
    /\ call.bxdf.thickness # QZero
    /\ call.wo = V3(Q(3, 5), QZero, Q(4, 5))
    /\ call.sample.wi = V3(Q(-3, 5), QZero, Q(4, 5))

(* 2F / (1 + F) for the call, F = fr_dielectric(cos(theta_o), 1, eta)      *)
WindowR ==
    QDiv(QMul(QI(2), fr_dielectric(call.wo.z, QOne, call.bxdf.eta)),
         QAdd(QOne, fr_dielectric(call.wo.z, QOne, call.bxdf.eta)))

(* C12: with thickness == 0, sample_f reflects exactly when                *)
(* u.x < 2F / (1 + F), reports 2F / (1 + F) as the pdf of a reflection     *)
(* and 1 - 2F / (1 + F) as the pdf of a transmission.                      *)
C12_WindowProbability ==
    (ThinDone("sample_f") /\ call.bxdf.thickness = QZero) =>
        /\ QLt(call.u, WindowR) <=> call.sample.wi = ThinReflect(call.wo)
        /\ QLt(call.u, WindowR) => call.sample.pdf = WindowR
        /\ ~QLt(call.u, WindowR) =>
              (call.sample.wi = VNeg(call.wo)
               /\ call.sample.pdf = QSub(QOne, WindowR))

(* normal incidence on glass of index 3/2: F = 1/25, 2F / (1 + F) = 1/13   *)
C12_Witness ==
    /\ ThinDone("sample_f") /\ call.bxdf.thickness = QZero
    /\ call.bxdf.eta = Q(3, 2) /\ call.wo = V3(QZero, QZero, QOne)
    /\ WindowR = Q(1, 13)
    /\ call.u = QZero
    /\ call.sample.pdf = Q(1, 13)
    /\ call.sample.wi = V3(QZero, QZero, QOne)

---------------------------------------------------------------------------
(* SpecDiff: DiffuseBxDF::sample_f with cosine_sample_hemisphere           *)
(* (src/core/bsdf.rs) and sample_uniform_disk_polar (src/core/math.rs).    *)
(*                                                                         *)
(* The sample points have u.x in {0, 9/25, 16/25, 1} and u.y a quarter     *)
(* turn, for which the radius, the cosine and sine of the angle and the    *)
(* height z are rational.                                                  *)

(* 1.0 / PI, to three digits                                               *)
InvPi == Q(7, 22)

(* theta.cos() and theta.sin() for theta = 2 PI u.y, u.y a quarter turn    *)
TurnCos(uy) ==
    IF uy = QZero THEN QOne ELSE IF uy = Q(1, 2) THEN QI(-1) ELSE QZero

TurnSin(uy) ==
    IF uy = Q(1, 4) THEN QOne ELSE IF uy = Q(3, 4) THEN QI(-1) ELSE QZero

(* sample_uniform_disk_polar(u)                                            *)
sample_uniform_disk_polar(u) ==
    [x |-> QMul(QSqrt(u.x), TurnCos(u.y)), y |-> QMul(QSqrt(u.x), TurnSin(u.y))]

(* z = (1.0 - d.x * d.x - d.y * d.y).max(0.0).sqrt()                       *)
HemisphereZ(d) ==
    QSqrt(QMax(QSub(QSub(QOne, QMul(d.x, d.x)), QMul(d.y, d.y)), QZero))

HemisphereOfDisk(d) == V3(d.x, d.y, HemisphereZ(d))

cosine_sample_hemisphere(u) == HemisphereOfDisk(sample_uniform_disk_polar(u))

(* DiffuseBxDF::f                                                          *)
DiffuseF(bxdf, wo, wi) == SScale(bxdf.r, InvPi)

(* DiffuseBxDF::pdf                                                        *)
DiffusePdf(bxdf, wo, wi) ==
    IF QLe(wi.z, QZero) THEN QZero ELSE QMul(wi.z, InvPi)

(* Mutant of DiffuseOpposite: the hemisphere test is left out.             *)
DiffuseOpposite_Never(wo, wi) ==
    FALSE

(* wo.z * wi.z < 0.0                                                       *)
DiffuseOpposite(wo, wi) ==
    QLt(QMul(wo.z, wi.z), QZero)

DiffuseSampleAt(bxdf, wo, wi) ==
    IF DiffuseOpposite(wo, wi) THEN None
    ELSE [some |-> TRUE, f |-> DiffuseF(bxdf, wo, wi), wi |-> wi,
          pdf |-> DiffusePdf(bxdf, wo, wi), is_delta |-> FALSE]

(* DiffuseBxDF::sample_f(wo, u)                                            *)
DiffuseSampleF(bxdf, wo, u) ==
    DiffuseSampleAt(bxdf, wo, cosine_sample_hemisphere(u))

DiskPoints ==
    {[x |-> x, y |-> y] :
        x \in {QZero, Q(9, 25), Q(16, 25), QOne},
        y \in {QZero, Q(1, 4), Q(1, 2), Q(3, 4)}}

(* DiffuseBxDF::new(r)                                                     *)
DiffuseBxdfs ==
    {[r |-> r] : r \in {SNew(Q(1, 2)), <<QOne, Q(1, 2), QZero, Q(1, 4)>>}}

InitDiffState ==
    \E bxdf \in DiffuseBxdfs, wo \in LocalDirs, u \in DiskPoints :
        call = [fn |-> "DiffuseBxDF", bxdf |-> bxdf, wo |-> wo, u |-> u,
                done |-> FALSE, sample |-> None]

DiffuseCallSampleF ==
    /\ call # None /\ call.fn = "DiffuseBxDF" /\ ~call.done
    /\ call' = [call EXCEPT !.done = TRUE,
                            !.sample = DiffuseSampleF(call.bxdf, call.wo, call.u)]
    /\ UNCHANGED <<tri, lst, pathVars, ph>>

InitDiff == InitDiffState /\ tri = None /\ lst = None /\ IdlePath /\ ph = None

NextDiff == DiffuseCallSampleF

SpecDiff == InitDiff /\ [][NextDiff]_vars

DiffDone == call # None /\ call.fn = "DiffuseBxDF" /\ call.done

(* C13: a sample returned by DiffuseBxDF::sample_f has the pdf that        *)
(* DiffuseBxDF::pdf gives for its wi, has wi.z >= 0, and is not returned   *)
(* when wo.z * wi.z < 0 for the direction wi the sample point maps to.     *)
C13_CosineSample ==
    DiffDone =>
        /\ IsSome(call.sample) =>
              /\ call.sample.pdf = DiffusePdf(call.bxdf, call.wo, call.sample.wi)
              /\ QGe(call.sample.wi.z, QZero)
              /\ ~QLt(QMul(call.wo.z, call.sample.wi.z), QZero)
        /\ QLt(QMul(call.wo.z, cosine_sample_hemisphere(call.u).z), QZero)
              => ~IsSome(call.sample)

(* a sample above the surface with cos(theta_i) = 3/5                      *)
C13_Witness ==
    /\ DiffDone /\ IsSome(call.sample)
    /\ call.wo = V3(Q(3, 5), QZero, Q(4, 5))
    /\ call.sample.wi = V3(QZero, Q(-4, 5), Q(3, 5))
    /\ call.sample.pdf = QMul(Q(3, 5), InvPi)

(* wo below the surface: the sample is refused                             *)
C13_WitnessRefused ==
    /\ DiffDone /\ ~IsSome(call.sample)
    /\ QLt(call.wo.z, QZero)

---------------------------------------------------------------------------
(* SpecLi: DiffuseAreaLight::sample_li (src/core/light.rs).                *)
(*                                                                         *)
(* Shape::area and Shape::sample are trait methods without an              *)
(* implementation in the repository: the sampled point, its normal and     *)
(* the cached area are inputs.  The area may be any f32, among them 0,     *)
(* a negative value, INFINITY and NaN.  The points are chosen so that      *)
(* their distance to the shading point is rational.                        *)

QIsFinite(q) == q[2] # 0

(* self.area * cos_theta_light, cos_theta_light finite and > 0             *)
AreaTimesCos(area, cos_theta_light) ==
    IF QIsFinite(area) THEN QMul(area, cos_theta_light) ELSE area

(* dist_sq / (self.area * cos_theta_light), dist_sq finite and > 0         *)
PdfOmega(dist_sq, denom) ==
    IF denom = NaN THEN NaN
    ELSE IF ~QIsFinite(denom) THEN QZero
    ELSE IF denom = QZero THEN Inf
    ELSE QDiv(dist_sq, denom)

(* Mutant of LiPdfRejected: only the sign of the pdf is tested.            *)
LiPdfRejected_SignOnly(pdf) ==
    QIsFinite(pdf) /\ QLe(pdf, QZero)

(* !pdf.is_finite() || pdf <= 0.0                                          *)
LiPdfRejected(pdf) ==
    ~QIsFinite(pdf) \/ QLe(pdf, QZero)

LiFromPdf(light, p_light, wi, pdf) ==
    IF LiPdfRejected(pdf) THEN None
    ELSE [some |-> TRUE, l |-> light.l_emit, wi |-> wi, pdf |-> pdf,
          p_light |-> p_light]

LiFromCos(light, p_light, dist_sq, wi, cos_theta_light) ==
    IF QLe(cos_theta_light, QZero) THEN None
    ELSE LiFromPdf(light, p_light, wi,
                   PdfOmega(dist_sq, AreaTimesCos(light.area, cos_theta_light)))

LiFromWi(light, p_light, n_light, dist_sq, wi) ==
    LiFromCos(light, p_light, dist_sq, wi, VDot(n_light, VNeg(wi)))

LiFromDist(light, p_light, n_light, wi_vec, dist_sq) ==
    IF dist_sq = QZero THEN None
    ELSE LiFromWi(light, p_light, n_light, dist_sq,
                  VScale(wi_vec, QDiv(QOne, QSqrt(dist_sq))))

LiFromVec(light, p_light, n_light, wi_vec) ==
    LiFromDist(light, p_light, n_light, wi_vec, VDot(wi_vec, wi_vec))

(* DiffuseAreaLight::sample_li(ctx, u), (p_light, n_light) being what      *)
(* self.shape.sample(u) returns                                            *)
sample_li(light, p, p_light, n_light) ==
    LiFromVec(light, p_light, n_light, VSub(p_light, p))

DistMax == 2

(* points at a rational distance from each other                           *)
LiPoints ==
    {VI(0, 0, d) : d \in 0..DistMax}
        \cup {VI(3, 4, 0), VI(0, 3, 4), VI(3, 4, DistMax)}

LiNormals ==
    {VI(0, 0, 1), VI(0, 0, -1), VI(1, 0, 0), VI(-1, 0, 0), VI(0, 1, 0),
     VI(0, -1, 0)}

LiAreas == {QZero, Q(1, 2), QI(2), QI(-1), Inf, NaN}

AreaLights ==
    {[l_emit |-> l, area |-> a] :
        l \in {SNew(QI(3)), <<QOne, QI(2), QZero, Q(1, 2)>>}, a \in LiAreas}

(* the distance between the two points is rational                         *)
LiExact(p, p_light) == IsSquare(VDot(VSub(p_light, p), VSub(p_light, p)))

InitLiState ==
    \E light \in AreaLights, p \in {VI(0, 0, 0), VI(0, 0, DistMax)},
       p_light \in LiPoints, n_light \in LiNormals :
        /\ LiExact(p, p_light)
        /\ call = [fn |-> "sample_li", light |-> light, p |-> p,
                   p_light |-> p_light, n_light |-> n_light,
                   done |-> FALSE, sample |-> None]

LiCall ==
    /\ call # None /\ call.fn = "sample_li" /\ ~call.done
    /\ call' = [call EXCEPT !.done = TRUE,
                            !.sample = sample_li(call.light, call.p,
                                                 call.p_light, call.n_light)]
    /\ UNCHANGED <<tri, lst, pathVars, ph>>

InitLi == InitLiState /\ tri = None /\ lst = None /\ IdlePath /\ ph = None

NextLi == LiCall

SpecLi == InitLi /\ [][NextLi]_vars

LiDone == call # None /\ call.fn = "sample_li" /\ call.done

(* squared distance from the shading point to the sampled point            *)
LiDistSq == VDot(VSub(call.p_light, call.p), VSub(call.p_light, call.p))

(* dot(n_light, -wi) times the distance                                    *)
LiCosTimesDist == VDot(call.n_light, VSub(call.p, call.p_light))

(* C16: sample_li returns none when the sampled point is the shading       *)
(* point, when dot(n_light, -wi) <= 0, or when dist^2 / (area * cos) is    *)
(* not finite or is <= 0; a returned sample carries l_emit, the sampled    *)
(* point and a finite pdf > 0 equal to dist^2 / (area * cos).              *)
C16_SampleLi ==
    LiDone =>
        /\ LiDistSq = QZero => ~IsSome(call.sample)
        /\ QLe(LiCosTimesDist, QZero) => ~IsSome(call.sample)
        /\ (~QIsFinite(call.light.area) \/ QLe(call.light.area, QZero))
              => ~IsSome(call.sample)
        /\ IsSome(call.sample) =>
              /\ call.sample.l = call.light.l_emit
              /\ call.sample.p_light = call.p_light
              /\ QIsFinite(call.sample.pdf)
              /\ QGt(call.sample.pdf, QZero)
              /\ QMul(QMul(call.sample.pdf, call.light.area), LiCosTimesDist)
                    = QMul(LiDistSq, QSqrt(LiDistSq))

(* a light of area 2 seen at distance 5 under cos = 4/5: pdf = 125/8       *)
C16_Witness ==
    /\ LiDone /\ IsSome(call.sample)
    /\ call.p = VI(0, 0, 0) /\ call.p_light = VI(0, 3, 4)
    /\ call.n_light = VI(0, 0, -1) /\ call.light.area = QI(2)
    /\ call.sample.pdf = Q(125, 8)
    /\ call.sample.wi = V3(QZero, Q(3, 5), Q(4, 5))

(* a light facing the point but with area 0 is refused                     *)
C16_WitnessZeroArea ==
    /\ LiDone /\ ~IsSome(call.sample)
    /\ LiDistSq # QZero /\ QGt(LiCosTimesDist, QZero)
    /\ call.light.area = QZero

---------------------------------------------------------------------------
(* SpecMat: PrincipledMaterial::compute_scattering (src/core/material.rs)  *)
(* and TrowbridgeReitzDistribution::new (src/core/microfacet.rs).          *)

(* the floor 0.001 of TrowbridgeReitzDistribution::new                     *)
AlphaFloor == Q(1, 1000)

(* TrowbridgeReitzDistribution::new(rough_x, rough_y)                      *)
TrowbridgeReitzNew(rough_x, rough_y) ==
    [alpha_x |-> QMax(QMul(rough_x, rough_x), AlphaFloor),
     alpha_y |-> QMax(QMul(rough_y, rough_y), AlphaFloor)]

(* let alpha = roughness_val * roughness_val;                              *)
(* TrowbridgeReitzDistribution::new(alpha, alpha)                          *)
PrincipledDistribution(roughness_val) ==
    TrowbridgeReitzNew(QMul(roughness_val, roughness_val),
                       QMul(roughness_val, roughness_val))

(* the BxDF variant: metallic_val > 0.5 picks the conductor                *)
PrincipledBxdf(metallic_val) ==
    IF QGt(metallic_val, Q(1, 2)) THEN "Microfacet" ELSE "FresnelBlend"

(* PrincipledMaterial::compute_scattering, as far as the distribution and  *)
(* the variant of the BxDF go                                              *)
PrincipledScattering(mat) ==
    [some |-> TRUE,
     distribution |-> PrincipledDistribution(mat.roughness[1]),
     bxdf |-> PrincipledBxdf(mat.metallic[1])]

RoughDen == 16

(* values of the roughness texture at the hit                              *)
Roughnesses == {SNew(Q(n, RoughDen)) : n \in 0..RoughDen}

Metallics == {SNew(QZero), SNew(Q(1, 2)), SNew(QOne)}

PrincipledMaterials ==
    {[base_color |-> c, metallic |-> m, roughness |-> r] :
        c \in {SNew(Q(1, 2)), <<QOne, Q(1, 2), QZero, Q(1, 4)>>},
        m \in Metallics, r \in Roughnesses}

InitMatState ==
    \E mat \in PrincipledMaterials :
        call = [fn |-> "compute_scattering", mat |-> mat, done |-> FALSE,
                bsdf |-> None]

ComputeScattering ==
    /\ call # None /\ call.fn = "compute_scattering" /\ ~call.done
    /\ call' = [call EXCEPT !.done = TRUE,
                            !.bsdf = PrincipledScattering(call.mat)]
    /\ UNCHANGED <<tri, lst, pathVars, ph>>

InitMat == InitMatState /\ tri = None /\ lst = None /\ IdlePath /\ ph = None

NextMat == ComputeScattering

SpecMat == InitMat /\ [][NextMat]_vars

MatDone == call # None /\ call.fn = "compute_scattering" /\ call.done

(* the perceptual roughness value r of the call                            *)
MatRoughness == call.mat.roughness[1]

(* C17, as the code has it: alpha_x = alpha_y = max(r^4, 0.001), and both  *)
(* are >= 0.001.                                                           *)
C17_AlphaFloored ==
    MatDone =>
        /\ call.bsdf.distribution.alpha_x = call.bsdf.distribution.alpha_y
        /\ call.bsdf.distribution.alpha_x
              = QMax(QMul(QMul(MatRoughness, MatRoughness),
                          QMul(MatRoughness, MatRoughness)), AlphaFloor)
        /\ QGe(call.bsdf.distribution.alpha_x, AlphaFloor)

(* C17, as stated: the distribution built for a PrincipledMaterial hit     *)
(* has alpha_x = alpha_y = max(r^2, 0.001), r the roughness value.         *)
C17_AlphaIsSquare ==
    MatDone =>
        /\ call.bsdf.distribution.alpha_x = call.bsdf.distribution.alpha_y
        /\ call.bsdf.distribution.alpha_x
              = QMax(QMul(MatRoughness, MatRoughness), AlphaFloor)

(* roughness 1/2 gives alpha 1/16, not 1/4                                 *)
C17_Witness ==
    /\ MatDone /\ MatRoughness = Q(1, 2)
    /\ call.bsdf.distribution.alpha_x = Q(1, 16)

(* roughness 1/16 is floored                                               *)
C17_WitnessFloor ==
    /\ MatDone /\ MatRoughness = Q(1, RoughDen)
    /\ call.bsdf.distribution.alpha_x = AlphaFloor

---------------------------------------------------------------------------
(* SpecPixel: the loop of render over the samples of one pixel             *)
(* (src/core/integrator.rs), with SampledWavelengths::sample_uniform,      *)
(* SampledSpectrum::to_xyz and xyz_to_rgb (src/core/spectrum.rs) and       *)
(* Film::set_pixel (src/core/film.rs).                                     *)
(*                                                                         *)
(* The path of a sample is taken as a whole: a camera ray that misses      *)
(* leaves the loop at its first statement, and a camera ray that hits      *)
(* ends with one of the radiances SpecPath reaches.  The colour matching   *)
(* functions and the sRGB matrix are rounded to two decimals.              *)

LAMBDA_MIN == 400
LAMBDA_MAX == 700

(* bucket_width                                                            *)
BucketWidth == Q(LAMBDA_MAX - LAMBDA_MIN, N_SPECTRUM_SAMPLES)

WavelengthAt(i, u) ==
    QAdd(QAdd(QI(LAMBDA_MIN), QMul(QI(i), BucketWidth)), QMul(u, BucketWidth))

(* SampledWavelengths::sample_uniform(u)                                   *)
sample_uniform(u) ==
    [lambda |-> <<WavelengthAt(0, u), WavelengthAt(1, u), WavelengthAt(2, u),
                  WavelengthAt(3, u)>>,
     pdf |-> SNew(Q(1, LAMBDA_MAX - LAMBDA_MIN))]

(* cie_x, cie_y, cie_z at the wavelengths of sample_uniform(0) and         *)
(* sample_uniform(1/2), in hundredths                                      *)
CieHundredths(lambda) ==
    CASE lambda = QI(400) -> <<1, 0, 6>>
      [] lambda = QI(475) -> <<14, 11, 104>>
      [] lambda = QI(550) -> <<43, 99, 1>>
      [] lambda = QI(625) -> <<76, 32, 0>>
      [] lambda = Q(875, 2) -> <<35, 2, 170>>
      [] lambda = Q(1025, 2) -> <<3, 55, 14>>
      [] lambda = Q(1175, 2) -> <<100, 79, 0>>
      [] lambda = Q(1325, 2) -> <<14, 6, 0>>

cie_x(lambda) == Q(CieHundredths(lambda)[1], 100)
cie_y(lambda) == Q(CieHundredths(lambda)[2], 100)
cie_z(lambda) == Q(CieHundredths(lambda)[3], 100)

(* if pdf != 0.0 { x += val * cie_x(wav) / pdf; }                          *)
XyzTerm(acc, val, cie, pdf) ==
    IF pdf # QZero THEN QAdd(acc, QDiv(QMul(val, cie), pdf)) ELSE acc

XyzSumX(l, w) ==
    XyzTerm(XyzTerm(XyzTerm(XyzTerm(QZero,
        l[1], cie_x(w.lambda[1]), w.pdf[1]),
        l[2], cie_x(w.lambda[2]), w.pdf[2]),
        l[3], cie_x(w.lambda[3]), w.pdf[3]),
        l[4], cie_x(w.lambda[4]), w.pdf[4])

XyzSumY(l, w) ==
    XyzTerm(XyzTerm(XyzTerm(XyzTerm(QZero,
        l[1], cie_y(w.lambda[1]), w.pdf[1]),
        l[2], cie_y(w.lambda[2]), w.pdf[2]),
        l[3], cie_y(w.lambda[3]), w.pdf[3]),
        l[4], cie_y(w.lambda[4]), w.pdf[4])

XyzSumZ(l, w) ==
    XyzTerm(XyzTerm(XyzTerm(XyzTerm(QZero,
        l[1], cie_z(w.lambda[1]), w.pdf[1]),
        l[2], cie_z(w.lambda[2]), w.pdf[2]),
        l[3], cie_z(w.lambda[3]), w.pdf[3]),
        l[4], cie_z(w.lambda[4]), w.pdf[4])

(* SampledSpectrum::to_xyz                                                 *)
to_xyz(l, w) ==
    <<QDiv(XyzSumX(l, w), QI(N_SPECTRUM_SAMPLES)),
      QDiv(XyzSumY(l, w), QI(N_SPECTRUM_SAMPLES)),
      QDiv(XyzSumZ(l, w), QI(N_SPECTRUM_SAMPLES))>>

RgbRow(a, b, c, xyz) ==
    QAdd(QAdd(QMul(Q(a, 100), xyz[1]), QMul(Q(b, 100), xyz[2])),
         QMul(Q(c, 100), xyz[3]))

(* SampledSpectrum::xyz_to_rgb                                             *)
xyz_to_rgb(xyz) ==
    <<RgbRow(324, -154, -50, xyz), RgbRow(-97, 188, 4, xyz),
      RgbRow(6, -20, 106, xyz)>>

(* Mutant of MissRadiance: a missed ray picks up a background radiance.    *)
MissRadiance_Background ==
    SNew(QOne)

(* l when the camera ray misses: SampledSpectrum::new(0.0), and the loop   *)
(* breaks at its first statement                                           *)
MissRadiance ==
    SNew(QZero)

(* l when the loop ends after a camera ray that hit                        *)
HitRadiances == {SZero, SNew(QOne), <<QI(2), QZero, QZero, QZero>>}

(* l of one path, by whether its camera ray missed                         *)
PathRadiances(missed) == IF missed THEN {MissRadiance} ELSE HitRadiances

(* pixel_color + Vector3 { x: rgb[0], y: rgb[1], z: rgb[2] }               *)
PixelAdd(pixel_color, rgb) ==
    VAdd(pixel_color, V3(rgb[1], rgb[2], rgb[3]))

(* samples per pixel (8 * 8 in render) and the resolution of the film      *)
Spp == 3
ResX == 2
ResY == 2

(* Film::new(resolution)                                                   *)
FilmNew == [i \in 0..(ResX * ResY - 1) |-> VI(0, 0, 0)]

(* Mutant of FilmIdx: the coordinates are exchanged.                       *)
FilmIdx_Transposed(pixel) == pixel.x * ResX + pixel.y

(* idx = p.y * self.resolution.x + p.x                                     *)
FilmIdx(pixel) == pixel.y * ResX + pixel.x

InitPixelState ==
    \E x \in 0..(ResX - 1), y \in 0..(ResY - 1) :
        call = [fn |-> "render", pixel |-> [x |-> x, y |-> y], s |-> 0,
                pixel_color |-> VI(0, 0, 0), paths |-> << >>,
                film |-> FilmNew, done |-> FALSE]

(* one turn of the loop over the samples: a path, then the conversion of   *)
(* its radiance and the accumulation                                       *)
RenderSample ==
    /\ call # None /\ call.fn = "render" /\ call.s < Spp
    /\ \E missed \in BOOLEAN, u \in Us :
          \E l \in PathRadiances(missed) :
              call' = [call EXCEPT
                  !.s = @ + 1,
                  !.paths = Append(@, [missed |-> missed, u |-> u, l |-> l]),
                  !.pixel_color =
                      PixelAdd(@, xyz_to_rgb(to_xyz(l, sample_uniform(u))))]
    /\ UNCHANGED <<tri, lst, pathVars, ph>>

(* film.set_pixel(pixel, pixel_color * (1.0 / spp))                        *)
SetPixel ==
    /\ call # None /\ call.fn = "render" /\ call.s = Spp /\ ~call.done
    /\ call' = [call EXCEPT
           !.done = TRUE,
           !.film[FilmIdx(call.pixel)] =
               VScale(call.pixel_color, QDiv(QOne, QI(Spp)))]
    /\ UNCHANGED <<tri, lst, pathVars, ph>>

InitPixel == InitPixelState /\ tri = None /\ lst = None /\ IdlePath /\ ph = None

NextPixel == RenderSample \/ SetPixel

SpecPixel == InitPixel /\ [][NextPixel]_vars

PixelRunning == call # None /\ call.fn = "render"

PixelDone == PixelRunning /\ call.done

AllMissed == \A i \in 1..Len(call.paths) : call.paths[i].missed

(* C18: a path whose camera ray misses ends with L the zero spectrum, and  *)
(* when every camera ray of a pixel misses render writes (0, 0, 0) to the  *)
(* film cell of the pixel.                                                 *)
C18_MissIsBlack ==
    /\ PixelRunning =>
          \A i \in 1..Len(call.paths) :
              call.paths[i].missed => call.paths[i].l = SNew(QZero)
    /\ (PixelDone /\ AllMissed) =>
          call.film[FilmIdx(call.pixel)] = VI(0, 0, 0)

(* the pixel (1, 1) written after Spp misses                               *)
C18_Witness ==
    /\ PixelDone /\ AllMissed /\ Len(call.paths) = Spp
    /\ call.pixel = [x |-> 1, y |-> 1]
    /\ call.film[ResX + 1] = VI(0, 0, 0)

(* a pixel with one hit among its samples is not black                     *)
C18_WitnessLit ==
    /\ PixelDone /\ ~AllMissed
    /\ call.film[FilmIdx(call.pixel)] # VI(0, 0, 0)

---------------------------------------------------------------------------
(* SpecDiv: impl Div for SampledSpectrum (src/core/spectrum.rs).           *)

(* x / y on f32, x and y finite                                            *)
F32Quot(x, y) ==
    IF y # QZero THEN QDiv(x, y)
    ELSE IF x = QZero THEN NaN
    ELSE IF QGt(x, QZero) THEN Inf ELSE NegInf

(* Mutant of DivGuard: every component is divided.                         *)
DivGuard_Off(y) ==
    TRUE

(* rhs.values[i] != 0.0                                                    *)
DivGuard(y) ==
    y # QZero

(* v[i]                                                                    *)
DivComponent(x, y) == IF DivGuard(y) THEN F32Quot(x, y) ELSE QZero

(* SampledSpectrum::div(self, rhs)                                         *)
SDiv(a, b) ==
    <<DivComponent(a[1], b[1]), DivComponent(a[2], b[2]),
      DivComponent(a[3], b[3]), DivComponent(a[4], b[4])>>

ValMax == 1

(* values of one component                                                 *)
DivVals == {Q(n, 2) : n \in (-ValMax)..ValMax}

Dividends == {<<p, q, QOne, QI(-3)>> : p \in DivVals, q \in DivVals}

Divisors ==
    {<<p, q, r, t>> : p \in DivVals, q \in DivVals, r \in DivVals, t \in DivVals}

InitDivState ==
    \E a \in Dividends, b \in Divisors :
        call = [fn |-> "div", self |-> a, rhs |-> b, done |-> FALSE,
                res |-> None]

DivCall ==
    /\ call # None /\ call.fn = "div" /\ ~call.done
    /\ call' = [call EXCEPT !.done = TRUE, !.res = SDiv(call.self, call.rhs)]
    /\ UNCHANGED <<tri, lst, pathVars, ph>>

InitDiv == InitDivState /\ tri = None /\ lst = None /\ IdlePath /\ ph = None

NextDiv == DivCall

SpecDiv == InitDiv /\ [][NextDiv]_vars

DivDone == call # None /\ call.fn = "div" /\ call.done

(* C20: the quotient of two spectra is 0 in every component whose divisor  *)
(* is 0 and the quotient of the components elsewhere, and no component of  *)
(* it is NaN or infinite.                                                  *)
C20_GuardedDivision ==
    DivDone =>
        \A i \in 1..N_SPECTRUM_SAMPLES :
            /\ call.rhs[i] = QZero => call.res[i] = QZero
            /\ call.rhs[i] # QZero
                  => /\ QMul(call.res[i], call.rhs[i]) = call.self[i]
                     /\ call.res[i] = QDiv(call.self[i], call.rhs[i])
            /\ QIsFinite(call.res[i])

(* (0, 1/2, 1, -3) / (0, 0, 1/2, -1/2) = (0, 0, 2, 6)                      *)
C20_Witness ==
    /\ DivDone
    /\ call.self = <<QZero, Q(1, 2), QOne, QI(-3)>>
    /\ call.rhs = <<QZero, QZero, Q(1, 2), Q(-1, 2)>>
    /\ call.res = <<QZero, QZero, QI(2), QI(6)>>

---------------------------------------------------------------------------
(* SpecScale: the path loop of render run twice on the same scene with     *)
(* the same sampler draws (src/core/integrator.rs).  In the second run     *)
(* the radiance of the lights is multiplied by k >= 1.  The first run      *)
(* lives in the path variables, the second in the record call; every       *)
(* step draws the answers of the scene and of the sampler once and hands   *)
(* them to both runs.  A run takes a step only at its own position in the  *)
(* loop body.                                                              *)
(* The materials, the emissive ones among them, are the same in both      *)
(* runs.                                                                   *)

KMax == 2

(* Mutant of ScaledRadiance: the radiance is divided by k.                 *)
ScaledRadiance_Dimmed(l, k) ==
    SScale(l, Q(1, k))

(* l_emit of the second run                                                *)
ScaledRadiance(l, k) ==
    SScale(l, QI(k))

(* the LightLiSample of the second run                                     *)
ScaledSample(ls, k) ==
    IF IsSome(ls) THEN [ls EXCEPT !.l = ScaledRadiance(ls.l, k)] ELSE ls

(* light.sample_li in the two runs' scene: no sample, a light without      *)
(* radiance, a white light and a light that emits in one band only         *)
ScaleLightSamples ==
    {None} \cup {[some |-> TRUE, l |-> l, pdf |-> QI(2), light_dist |-> QOne] :
                    l \in {SZero, SNew(QOne), <<QZero, QOne, QZero, QZero>>}}

(* scene.intersect(&shadow_ray): None or an occluder                       *)
ScaleShadowHits == {None, [some |-> TRUE, t |-> Q(1, 2)]}

(* bsdf.sample_f: for the thin film a white sample and one without        *)
(* energy in three bands (a film whose r_vals are clamped to 1 there       *)
(* transmits nothing in them)                                              *)
ScaleBsdfSamples(bxdf) ==
    IF bxdf = "ThinDielectric"
    THEN {BsdfSample(SNew(QOne), Q(1, 2), Q(1, 2), TRUE),
          BsdfSample(<<QOne, QZero, QZero, QZero>>, Q(1, 2), Q(1, 2), TRUE)}
    ELSE {None, BsdfSample(SNew(Q(1, 4)), Q(1, 4), Q(1, 2), FALSE)}

InitScaleState ==
    /\ InitPathState
    /\ \E k \in 1..KMax :
          call = [fn |-> "scaled", k |-> k,
                  pc |-> "trace", bounces |-> 0, cause |-> "none",
                  L |-> SNew(QZero), beta |-> SNew(QOne),
                  specular_bounce |-> FALSE, nee |-> None]

ScaleRunning == call # None /\ call.fn = "scaled"

(* scene.intersect(&ray) in both runs                                      *)
ScaleTrace ==
    /\ ScaleRunning /\ pc = "trace"
    /\ \E h \in SceneHits :
          /\ hit' = h
          /\ pc' = IF IsSome(h) THEN "emit" ELSE "done"
          /\ cause' = IF IsSome(h) THEN cause ELSE "miss"
          /\ call' = IF call.pc # "trace" THEN call
                     ELSE [call EXCEPT
                              !.pc = IF IsSome(h) THEN "emit" ELSE "done",
                              !.cause = IF IsSome(h) THEN @ ELSE "miss"]
    /\ iters' = iters + 1
    /\ UNCHANGED <<bounces, L, beta, specular_bounce, nee, sample, lights>>
    /\ UNCHANGED <<tri, lst, ph>>

(* the second run after the surface-emission block and the two breaks      *)
ScaleEmitted(r, material) ==
    [r EXCEPT
        !.L = Emitted(r.L, r.beta, material, r.bounces, r.specular_bounce),
        !.pc = IF IsSome(material) /\ material.bxdf # "None"
               THEN "nee" ELSE "done",
        !.cause = IF ~IsSome(material) THEN "no_material"
                  ELSE IF material.bxdf = "None" THEN "no_bsdf"
                  ELSE @]

(* surface emission and the two breaks in both runs                        *)
ScaleEmit ==
    /\ ScaleRunning /\ pc = "emit"
    /\ L' = Emitted(L, beta, hit.material, bounces, specular_bounce)
    /\ pc' = IF IsSome(hit.material) /\ hit.material.bxdf # "None"
             THEN "nee" ELSE "done"
    /\ cause' = IF ~IsSome(hit.material) THEN "no_material"
                ELSE IF hit.material.bxdf = "None" THEN "no_bsdf"
                ELSE cause
    /\ call' = IF call.pc # "emit" THEN call
               ELSE ScaleEmitted(call, hit.material)
    /\ UNCHANGED <<bounces, beta, specular_bounce, hit, nee, sample, iters, lights>>
    /\ UNCHANGED <<tri, lst, ph>>

(* the second run after the light sample                                   *)
ScaleNeeRun(r, s, idx) ==
    [r EXCEPT !.L = NeeL(r.L, r.beta, s),
              !.nee = NeeRecord(r.L, s, idx),
              !.pc = "sample"]

ScaleNeeSample(idx, ls, shadow, cos_raw) ==
    /\ NeeSample(idx, ls, shadow, cos_raw)
    /\ call' = IF call.pc # "nee" THEN call
               ELSE ScaleNeeRun(call,
                        NeeInputs(idx, ScaledSample(ls, call.k), shadow, cos_raw),
                        idx)

(* next-event estimation in both runs                                      *)
ScaleNEE ==
    /\ ScaleRunning /\ pc = "nee"
    /\ IF lights = << >>
       THEN /\ nee' = None /\ L' = L
            /\ call' = IF call.pc # "nee" THEN call
                       ELSE [call EXCEPT !.nee = None, !.pc = "sample"]
       ELSE \E u \in Us, ls \in ScaleLightSamples, shadow \in ScaleShadowHits,
               cos_raw \in LightCosines :
               ScaleNeeSample(LightIdx(u, Len(lights)), ls, shadow, cos_raw)
    /\ pc' = "sample"
    /\ UNCHANGED <<bounces, beta, specular_bounce, hit, sample, cause, iters, lights>>
    /\ UNCHANGED <<tri, lst, ph>>

ScaleSampleBreak(r, c, bt) ==
    [r EXCEPT !.pc = "done", !.cause = c, !.beta = bt]

ScaleSampleContinue(r, bs, bt) ==
    [r EXCEPT
        !.beta = bt,
        !.specular_bounce = bs.is_delta,
        !.bounces = IF LoopContinues(r.bounces) THEN @ + 1 ELSE @,
        !.pc = IF LoopContinues(r.bounces) THEN "trace" ELSE "done",
        !.cause = IF LoopContinues(r.bounces) THEN @ ELSE "max_depth",
        !.nee = None]

(* the second run after the BSDF-sampling block                            *)
ScaleSampleRun(r, bs, u) ==
    IF SampleCause(bs) # "none" THEN ScaleSampleBreak(r, SampleCause(bs), r.beta)
    ELSE IF RouletteKills(r.bounces, Throughput(r.beta, bs), u)
    THEN ScaleSampleBreak(r, "rr_kill", Throughput(r.beta, bs))
    ELSE ScaleSampleContinue(r, bs,
             RouletteScale(r.bounces, Throughput(r.beta, bs)))

(* BSDF sampling, throughput update and Russian roulette in both runs      *)
ScaleSample ==
    /\ ScaleRunning /\ pc = "sample"
    /\ \E bs \in ScaleBsdfSamples(hit.material.bxdf), u \in Us :
          /\ SampleStep(bs, u)
          /\ call' = IF call.pc # "sample" THEN call
                     ELSE ScaleSampleRun(call, bs, u)
    /\ UNCHANGED <<tri, lst, ph>>

InitScale == InitScaleState /\ tri = None /\ lst = None /\ ph = None

NextScale == ScaleTrace \/ ScaleEmit \/ ScaleNEE \/ ScaleSample

SpecScale == InitScale /\ [][NextScale]_vars

(* the two runs are at the same place with the same throughput, and took   *)
(* the same branches of the light sample                                   *)
SameControlFlow ==
    /\ call.pc = pc /\ call.bounces = bounces /\ call.cause = cause
    /\ call.beta = beta /\ call.specular_bounce = specular_bounce
    /\ IsSome(call.nee) = IsSome(nee)
    /\ IsSome(nee) =>
          /\ call.nee.light_idx = nee.light_idx
          /\ call.nee.shadow_traced = nee.shadow_traced
          /\ call.nee.shadow = nee.shadow
          /\ call.nee.cos_raw = nee.cos_raw
          /\ call.nee.weight = nee.weight

(* no component of the radiance of the second run is below the first       *)
RadianceNotLower ==
    \A i \in 1..N_SPECTRUM_SAMPLES :
        QLe(QZero, L[i]) /\ QLe(L[i], call.L[i])

(* the light sample of this bounce was taken on a diffuse surface and      *)
(* reached the innermost block: radiance non-zero, not occluded, f         *)
(* non-zero, cos_theta > 0, pdf_light > 0                                  *)
LitDiffuseHit ==
    /\ pc = "sample" /\ IsSome(hit) /\ IsSome(hit.material)
    /\ hit.material.bxdf = "Diffuse"
    /\ IsSome(nee) /\ nee.shadow_traced /\ IsSome(nee.cos_raw)
    /\ QGt(nee.cos_raw.v, QZero)
    /\ ~Occluded(nee.shadow, nee.ls.light_dist)
    /\ (nee.is_delta \/ QGt(nee.ls.pdf, QZero))

C19_WitnessDark ==
    /\ ScaleRunning /\ LitDiffuseHit /\ SAllZero(L) /\ SAllZero(call.L)
    /\ bounces = 1

---------------------------------------------------------------------------
(* Further properties of the path loop (SpecPath).                         *)

(* beta after the throughput update of a Sample step, from the sample the  *)
(* step stored                                                             *)
UpdatedBeta == SScale(SMul(beta, sample'.f),
                      QDiv(QMax(sample'.cos_raw, QZero), sample'.pdf))

(* clamp(1 - max_component(UpdatedBeta), 0.05, 0.95)                       *)
KillProbability ==
    QMin(QMax(QSub(QOne, SMaxComponent(UpdatedBeta)), Q(1, 20)), Q(19, 20))

(* the Sample step got a usable sample: present, pdf != 0, spectrum not    *)
(* all zero, clamped cosine > 0                                            *)
SampleUsable ==
    /\ pc = "sample" /\ IsSome(sample')
    /\ sample'.pdf # QZero /\ ~SAllZero(sample'.f)
    /\ QGt(sample'.cos_raw, QZero)

C21_WitnessKilled ==
    /\ PathDone /\ cause = "rr_kill" /\ bounces = 4

(* UpdatedBeta * (1 / (1 - q))                                             *)
RescaledBeta ==
    SScale(UpdatedBeta, QDiv(QOne, QSub(QOne, KillProbability)))

(* the step ends the path at one of the breaks of the BSDF-sampling block  *)
SampleTerminates ==
    pc = "sample" /\ pc' = "done" /\ cause' # "max_depth"

(* the step spawns no next ray: the bounce, the hit and the flag of the    *)
(* last bounce stay                                                        *)
NoNextRay ==
    bounces' = bounces /\ hit' = hit /\ specular_bounce' = specular_bounce

(* beta changes only in a Sample step with a usable sample, to the         *)
(* updated or the rescaled throughput                                      *)
BetaOnlyBySample ==
    beta' # beta =>
        /\ SampleUsable
        /\ beta' = UpdatedBeta \/ (bounces > 3 /\ beta' = RescaledBeta)

(* C22, amended: beta changes only by a usable BSDF sample (times          *)
(* f * cos / pdf) and by the roulette rescale of a surviving path; the     *)
(* breaks for an absent sample, a zero pdf or spectrum and a zero cosine   *)
(* leave beta and L unchanged and spawn no ray; a roulette kill leaves L   *)
(* unchanged and spawns no ray, but ends the path with the updated beta.   *)
C22_BetaFrame ==
    [][/\ BetaOnlyBySample
       /\ (SampleTerminates /\ cause' # "rr_kill")
             => (beta' = beta /\ L' = L /\ NoNextRay)
       /\ (SampleTerminates /\ cause' = "rr_kill")
             => (beta' = UpdatedBeta /\ L' = L /\ NoNextRay)]_vars

(* C22, as stated: beta changes only by a usable BSDF sample and by the    *)
(* roulette rescale, and every terminating outcome of the BSDF-sampling    *)
(* step leaves beta and L unchanged and spawns no ray.                     *)
C22_TerminationKeepsBeta ==
    [][/\ BetaOnlyBySample
       /\ SampleTerminates => (beta' = beta /\ L' = L /\ NoNextRay)]_vars

(* a path killed by the roulette after a diffuse sample halved its beta    *)
C22_Witness ==
    /\ PathDone /\ cause = "rr_kill" /\ IsSome(sample) /\ ~sample.is_delta
    /\ beta = SNew(Q(1, 2))

(* a path ended by a zero cosine with its beta untouched                   *)
C22_WitnessBreak ==
    /\ PathDone /\ cause = "zero_cosine" /\ bounces = 2
    /\ beta = SNew(Q(1, 4))

(* C27: when the direction of the BSDF sample has a dot product <= 0 with  *)
(* the shading normal, as the transmission -wo of a ThinDielectric seen    *)
(* from the side of the normal has, the path ends at that bounce: no next  *)
(* ray is spawned and specular_bounce is not set from the sample.          *)
C27_NoRayBelowSurface ==
    [][(pc = "sample" /\ IsSome(sample') /\ QLe(sample'.cos_raw, QZero)) =>
          /\ pc' = "done"
          /\ cause' \in {"zero_pdf_or_spectrum", "zero_cosine"}
          /\ NoNextRay]_vars

(* a first hit on a thin dielectric, transmitted: the path ends there and  *)
(* the flag of the delta sample is not taken over                          *)
C27_Witness ==
    /\ PathDone /\ cause = "zero_cosine" /\ bounces = 0
    /\ IsSome(sample) /\ sample.is_delta /\ QLt(sample.cos_raw, QZero)
    /\ hit.material.bxdf = "ThinDielectric"
    /\ ~specular_bounce

---------------------------------------------------------------------------
(* SpecBlend: FresnelBlend (src/core/bsdf.rs) over DiffuseBxDF and         *)
(* MicrofacetReflection.                                                   *)
(*                                                                         *)
(* The branches of MicrofacetReflection are those of the code.  Its        *)
(* GGX terms are irrational; they are replaced by rational functions of    *)
(* the half vector h = wo + wi with the same zeros: sample_wh by the       *)
(* hemisphere point over the disk sample, D * |cos| / (4 |wo . wh|) by     *)
(* cos^2(theta_h) / 4, D * F * G by cos^2(theta_h), and the Schlick        *)
(* weight f0 + (1 - f0) (1 - cos_d)^5 by f0 + (1 - f0) (1 - cos_d^2).      *)

(* cos^2 of the angle between the half vector of wo, wi and the normal     *)
HalfCos2(wo, wi) ==
    QDiv(QMul(VAdd(wo, wi).z, VAdd(wo, wi).z), VDot(VAdd(wo, wi), VAdd(wo, wi)))

(* MicrofacetReflection::pdf                                               *)
MicrofacetPdf(wo, wi) ==
    IF QLt(QMul(wo.z, wi.z), QZero) THEN QZero
    ELSE IF VAdd(wo, wi) = VI(0, 0, 0) THEN QZero
    ELSE QDiv(HalfCos2(wo, wi), QI(4))

(* MicrofacetReflection::f                                                 *)
MicrofacetF(r, wo, wi) ==
    IF QAbs(wi.z) = QZero \/ QAbs(wo.z) = QZero THEN SNew(QZero)
    ELSE IF VAdd(wo, wi) = VI(0, 0, 0) THEN SNew(QZero)
    ELSE SScale(r, QDiv(HalfCos2(wo, wi),
                        QMul(QI(4), QMul(QAbs(wi.z), QAbs(wo.z)))))

(* wi = wh * (2.0 * wo.dot(wh)) - wo                                       *)
ReflectAbout(wo, wh) ==
    VSub(VScale(wh, QMul(QI(2), VDot(wo, wh))), wo)

MicrofacetSampleAt(r, wo, wi) ==
    IF QLt(QMul(wo.z, wi.z), QZero) THEN None
    ELSE IF QLe(MicrofacetPdf(wo, wi), QZero) THEN None
    ELSE [some |-> TRUE, f |-> MicrofacetF(r, wo, wi), wi |-> wi,
          pdf |-> MicrofacetPdf(wo, wi), is_delta |-> FALSE]

(* MicrofacetReflection::sample_f                                          *)
MicrofacetSampleF(r, wo, u) ==
    IF wo.z = QZero THEN None
    ELSE MicrofacetSampleAt(r, wo, ReflectAbout(wo, cosine_sample_hemisphere(u)))

(* f_s of FresnelBlend::f                                                  *)
SchlickWeight(wo, wi) ==
    QAdd(Q(1, 25),
         QMul(Q(24, 25),
              QSub(QOne, QDiv(QMul(VDot(wo, VAdd(wo, wi)), VDot(wo, VAdd(wo, wi))),
                              VDot(VAdd(wo, wi), VAdd(wo, wi))))))

(* FresnelBlend::f; the two lobes are [diffuse |-> DiffuseBxDF,            *)
(* specular |-> the r of the MicrofacetReflection]                         *)
BlendF(b, wo, wi) ==
    SAdd(MicrofacetF(b.specular, wo, wi),
         SScale(DiffuseF(b.diffuse, wo, wi), QSub(QOne, SchlickWeight(wo, wi))))

(* FresnelBlend::pdf                                                       *)
BlendPdf(b, wo, wi) ==
    QAdd(QMul(Q(1, 2), MicrofacetPdf(wo, wi)),
         QMul(Q(1, 2), DiffusePdf(b.diffuse, wo, wi)))

(* Mutant of BlendOfLobe: the f and the pdf of the sampled lobe are        *)
(* handed on.                                                              *)
BlendOfLobe_Unblended(b, wo, ls) ==
    IF IsSome(ls) THEN [ls EXCEPT !.is_delta = FALSE] ELSE None

(* Some((f_blend, wi, pdf_blend, false)) for the sample ls of a lobe       *)
BlendOfLobe(b, wo, ls) ==
    IF IsSome(ls)
    THEN [some |-> TRUE, f |-> BlendF(b, wo, ls.wi), wi |-> ls.wi,
          pdf |-> BlendPdf(b, wo, ls.wi), is_delta |-> FALSE]
    ELSE None

(* FresnelBlend::sample_f                                                  *)
BlendSampleF(b, wo, u) ==
    IF QLt(u.x, Q(1, 2))
    THEN BlendOfLobe(b, wo,
             MicrofacetSampleF(b.specular, wo,
                 [x |-> QMul(QI(2), u.x), y |-> u.y]))
    ELSE BlendOfLobe(b, wo,
             DiffuseSampleF(b.diffuse, wo,
                 [x |-> QMul(QI(2), QSub(u.x, Q(1, 2))), y |-> u.y]))

(* sample points whose remapped first coordinate is 0, 9/25 or 16/25       *)
BlendPoints ==
    {[x |-> x, y |-> y] :
        x \in {QZero, Q(9, 50), Q(8, 25), Q(1, 2), Q(17, 25), Q(41, 50)},
        y \in {QZero, Q(1, 4), Q(1, 2), Q(3, 4)}}

Blends ==
    {[diffuse |-> d, specular |-> SNew(QOne)] : d \in DiffuseBxdfs}

InitBlendState ==
    \E b \in Blends, wo \in LocalDirs, u \in BlendPoints :
        call = [fn |-> "FresnelBlend", bxdf |-> b, wo |-> wo, u |-> u,
                done |-> FALSE, sample |-> None]

BlendCallSampleF ==
    /\ call # None /\ call.fn = "FresnelBlend" /\ ~call.done
    /\ call' = [call EXCEPT !.done = TRUE,
                            !.sample = BlendSampleF(call.bxdf, call.wo, call.u)]
    /\ UNCHANGED <<tri, lst, pathVars, ph>>

InitBlend == InitBlendState /\ tri = None /\ lst = None /\ IdlePath /\ ph = None

NextBlend == BlendCallSampleF

SpecBlend == InitBlend /\ [][NextBlend]_vars

BlendDone == call # None /\ call.fn = "FresnelBlend" /\ call.done

(* the first coordinate after the remapping of the call                    *)
BlendRemapped ==
    IF QLt(call.u.x, Q(1, 2)) THEN QMul(QI(2), call.u.x)
    ELSE QMul(QI(2), QSub(call.u.x, Q(1, 2)))

(* what the lobe of the call returns for the remapped point                *)
BlendLobeSample ==
    IF QLt(call.u.x, Q(1, 2))
    THEN MicrofacetSampleF(call.bxdf.specular, call.wo,
                           [x |-> BlendRemapped, y |-> call.u.y])
    ELSE DiffuseSampleF(call.bxdf.diffuse, call.wo,
                        [x |-> BlendRemapped, y |-> call.u.y])

(* C23: FresnelBlend::sample_f samples the specular lobe exactly when      *)
(* u.x < 0.5, with the first coordinate remapped into [0, 1); a returned   *)
(* sample has the direction of the lobe, f = FresnelBlend::f(wo, wi),      *)
(* pdf = 0.5 pdf_specular + 0.5 pdf_diffuse at wi and is_delta = false.    *)
C23_BlendSample ==
    BlendDone =>
        /\ QLe(QZero, BlendRemapped) /\ QLt(BlendRemapped, QOne)
        /\ IsSome(call.sample) = IsSome(BlendLobeSample)
        /\ IsSome(call.sample) =>
              /\ call.sample.wi = BlendLobeSample.wi
              /\ call.sample.f = BlendF(call.bxdf, call.wo, call.sample.wi)
              /\ call.sample.pdf
                    = QAdd(QMul(Q(1, 2), MicrofacetPdf(call.wo, call.sample.wi)),
                           QMul(Q(1, 2),
                                DiffusePdf(call.bxdf.diffuse, call.wo,
                                           call.sample.wi)))
              /\ ~call.sample.is_delta

(* a sample of the diffuse lobe whose f and pdf are not those of the lobe  *)
C23_Witness ==
    /\ BlendDone /\ IsSome(call.sample) /\ QGe(call.u.x, Q(1, 2))
    /\ call.sample.pdf # BlendLobeSample.pdf
    /\ call.sample.f # BlendLobeSample.f

(* a sample of the specular lobe                                           *)
C23_WitnessSpecular ==
    /\ BlendDone /\ IsSome(call.sample) /\ QLt(call.u.x, Q(1, 2))
    /\ call.sample.pdf # BlendLobeSample.pdf

(***************************************************************************)
(* SpecSampler: StratifiedSampler driven as render drives it               *)
(* (src/core/sampler.rs, src/core/math.rs, src/core/integrator.rs).        *)
(* Word widths are scaled: the u64 state of PCG32 is StateBits wide, its   *)
(* u32 output OutBits wide, the f32 mantissa MantBits wide, and the        *)
(* non-negative i32 pixel coordinates run up to CoordMax.                  *)
(***************************************************************************)

(* seed = (p.x as u64) << 32 | (p.y as u64): the shift, scaled             *)
SeedShift == 4

(* u64 of RNG::state, scaled                                               *)
StateBits == 2 * SeedShift

(* u32 returned by next_u32, scaled                                        *)
OutBits == SeedShift

(* f32 keeps 24 of the 32 bits of a u32; scaled, 3 of 4                    *)
MantBits == 3

(* rot = oldstate >> 59 keeps the top 5 bits (32 = 2^5); scaled, 2 bits    *)
RotBits == 2

(* the largest non-negative i32, scaled                                    *)
CoordMax == 2 ^ (SeedShift - 1) - 1

(* 6364136223846793005 truncated to StateBits bits                         *)
PcgMult == 45

(* StratifiedSampler::new(8, 8), scaled                                    *)
XSamples == 2
YSamples == 2

(* sampler values one path draws after its wavelengths, at most            *)
MaxDraws == 2

RECURSIVE BitXor(_, _)
BitXor(a, b) ==
    IF a = 0 THEN b
    ELSE IF b = 0 THEN a
    ELSE (((a % 2) + (b % 2)) % 2) + 2 * BitXor(a \div 2, b \div 2)

(* u32::rotate_right on a bits-wide word                                   *)
RotateRight(v, r, bits) ==
    LET k == r % bits
    IN  ((v \div (2 ^ k)) + (v % (2 ^ k)) * (2 ^ (bits - k))) % (2 ^ bits)

(* RNG::next_u32: the state after the call                                 *)
RngAdvance(rng) ==
    [rng EXCEPT !.state = (rng.state * PcgMult + rng.inc) % (2 ^ StateBits)]

(* RNG::next_u32: the value returned                                       *)
RngOutput(rng) ==
    LET old        == rng.state
        xorshifted == (BitXor(old \div (2 ^ ((RotBits + OutBits) \div 2)), old)
                          \div (2 ^ (StateBits - OutBits - RotBits)))
                      % (2 ^ OutBits)
        rot        == old \div (2 ^ (StateBits - RotBits))
    IN  RotateRight(xorshifted, rot, OutBits)

(* RNG::new(seed, seq_index)                                               *)
RngNew(seed, seq_index) ==
    LET r0 == [state |-> 0, inc |-> (2 * seq_index + 1) % (2 ^ StateBits)]
        r1 == RngAdvance(r0)
        r2 == [r1 EXCEPT !.state = (r1.state + seed) % (2 ^ StateBits)]
    IN  RngAdvance(r2)

(* u32 as f32: round to nearest, ties to even, on MantBits bits            *)
RoundToF32(n) ==
    IF n < 2 ^ MantBits THEN n
    ELSE LET step == 2 ^ (OutBits - MantBits)
             lo   == (n \div step) * step
             rem  == n - lo
         IN  IF 2 * rem < step THEN lo
             ELSE IF 2 * rem > step THEN lo + step
             ELSE IF (lo \div step) % 2 = 0 THEN lo ELSE lo + step

(* RNG::next_f32: (next_u32() as f32) * 2^-32                              *)
RngF32(rng) == Q(RoundToF32(RngOutput(rng)), 2 ^ OutBits)

(* StratifiedSampler::new                                                  *)
SamplerNew(xs, ys) ==
    [x_samples |-> xs, y_samples |-> ys, rng |-> RngNew(0, 0),
     current_pixel |-> [x |-> 0, y |-> 0], current_sample |-> 0]

(* samples_per_pixel                                                       *)
SamplesPerPixel(sm) == sm.x_samples * sm.y_samples

(* the seed of start_pixel                                                 *)
PixelSeed(p) == p.x * (2 ^ SeedShift) + p.y

(* Mutant of SamplerStartPixel: the generator is not reseeded.             *)
SamplerStartPixel_KeepRng(sm, p) ==
    [sm EXCEPT !.current_pixel = p, !.current_sample = 0]

(* StratifiedSampler::start_pixel                                          *)
SamplerStartPixel(sm, p) ==
    [sm EXCEPT !.current_pixel = p, !.current_sample = 0,
               !.rng = RngNew(PixelSeed(p), 1)]

(* StratifiedSampler::get_2d: the sampler after the call                   *)
SamplerAfterGet2d(sm) ==
    LET cs == IF sm.current_sample >= SamplesPerPixel(sm)
              THEN 0 ELSE sm.current_sample
    IN  [sm EXCEPT !.current_sample = cs + 1,
                   !.rng = RngAdvance(RngAdvance(sm.rng))]

(* StratifiedSampler::get_2d: the point returned                           *)
SamplerGet2d(sm) ==
    LET cs        == IF sm.current_sample >= SamplesPerPixel(sm)
                     THEN 0 ELSE sm.current_sample
        stratum_x == cs % sm.x_samples
        stratum_y == cs \div sm.x_samples
        dx        == RngF32(sm.rng)
        dy        == RngF32(RngAdvance(sm.rng))
    IN  [x |-> QDiv(QAdd(QI(stratum_x), dx), QI(sm.x_samples)),
         y |-> QDiv(QAdd(QI(stratum_y), dy), QI(sm.y_samples))]

(* the cell of the x_samples by y_samples grid that holds a point          *)
StratumOf(sm, pt) ==
    <<(pt.x[1] * sm.x_samples) \div pt.x[2],
      (pt.y[1] * sm.y_samples) \div pt.y[2]>>

SamplerPixels == {[x |-> px, y |-> py] : px \in 0..CoordMax, py \in 0..CoordMax}

InitSamplerState ==
    call = [fn |-> "sampler", sampler |-> SamplerNew(XSamples, YSamples),
            phase |-> "pixel", started |-> FALSE, calls |-> 0, s |-> 0,
            draws |-> 0, strata |-> <<>>, value |-> None]

(* integrator.rs:42: sampler.start_pixel(pixel) at the head of a pixel     *)
SamplerCallStartPixel ==
    /\ call.fn = "sampler" /\ call.phase = "pixel"
    /\ \E p \in SamplerPixels :
         call' = [call EXCEPT !.sampler = SamplerStartPixel(call.sampler, p),
                              !.phase = "camera", !.started = TRUE,
                              !.calls = 0, !.s = 0, !.draws = 0,
                              !.strata = <<>>, !.value = None]
    /\ UNCHANGED <<tri, lst, pathVars, ph>>

(* integrator.rs:47 and 62: the raster offset of the camera ray, then the  *)
(* wavelengths, each one get_2d                                            *)
SamplerCameraSample ==
    /\ call.fn = "sampler" /\ call.phase = "camera"
    /\ LET offset == SamplerGet2d(call.sampler)
           sm1    == SamplerAfterGet2d(call.sampler)
           wl     == SamplerGet2d(sm1)
       IN  call' = [call EXCEPT !.sampler = SamplerAfterGet2d(sm1),
                                !.phase = "path", !.calls = @ + 2,
                                !.draws = 0,
                                !.strata = Append(@, StratumOf(call.sampler, offset)),
                                !.value = [some |-> TRUE, pt |-> wl]]
    /\ UNCHANGED <<tri, lst, pathVars, ph>>

(* integrator.rs:98, 104, 206, 233: one more get_2d inside the path loop   *)
SamplerPathDraw ==
    /\ call.fn = "sampler" /\ call.phase = "path" /\ call.draws < MaxDraws
    /\ call' = [call EXCEPT !.sampler = SamplerAfterGet2d(call.sampler),
                            !.calls = @ + 1, !.draws = @ + 1,
                            !.value = [some |-> TRUE,
                                       pt |-> SamplerGet2d(call.sampler)]]
    /\ UNCHANGED <<tri, lst, pathVars, ph>>

(* the path ends; the sample loop of integrator.rs:46 goes on or the pixel *)
(* is finished                                                             *)
SamplerEndPath ==
    /\ call.fn = "sampler" /\ call.phase = "path"
    /\ call' = [call EXCEPT !.s = @ + 1,
                            !.phase = IF call.s + 1 < SamplesPerPixel(call.sampler)
                                      THEN "camera" ELSE "pixel"]
    /\ UNCHANGED <<tri, lst, pathVars, ph>>

InitSampler == InitSamplerState /\ tri = None /\ lst = None /\ IdlePath /\ ph = None

NextSampler ==
    \/ SamplerCallStartPixel
    \/ SamplerCameraSample
    \/ SamplerPathDraw
    \/ SamplerEndPath

SpecSampler == InitSampler /\ [][NextSampler]_vars

(* all camera rays of the current pixel have been generated                *)
SamplerPixelDone ==
    /\ call.fn = "sampler" /\ call.started
    /\ Len(call.strata) = SamplesPerPixel(call.sampler)

(* C24 (as stated): the raster offsets of the camera rays of one pixel lie *)
(* in pairwise distinct strata of the x_samples by y_samples grid, however *)
(* many sampler values the paths consume.                                  *)
C24_DistinctStrata ==
    SamplerPixelDone =>
        \A i, j \in 1..Len(call.strata) :
            i # j => call.strata[i] # call.strata[j]

(* the value of current_sample the k-th get_2d after start_pixel reads     *)
CounterAt(k, spp) == IF k <= spp THEN k ELSE ((k - 1) % spp) + 1

(* C24 (what the code does): every get_2d advances the one stratum         *)
(* counter, so after k calls since start_pixel current_sample is k wrapped *)
(* into 1..samples_per_pixel, and the camera offsets use only the strata   *)
(* the counter shows at the first call of each sample.                     *)
C24_SharedCounter ==
    (call.fn = "sampler" /\ call.started) =>
        call.sampler.current_sample
            = CounterAt(call.calls, SamplesPerPixel(call.sampler))

C24_Witness ==
    /\ SamplerPixelDone
    /\ \E i, j \in 1..Len(call.strata) :
         i # j /\ call.strata[i] = call.strata[j]

RECURSIVE SamplerAfter(_, _)
(* the sampler a fresh StratifiedSampler becomes by start_pixel(p) and n   *)
(* calls of get_2d                                                         *)
SamplerAfter(p, n) ==
    IF n = 0 THEN SamplerStartPixel(SamplerNew(XSamples, YSamples), p)
    ELSE SamplerAfterGet2d(SamplerAfter(p, n - 1))

(* C25: after start_pixel(p) the sampler, and so each value get_2d         *)
(* returns, is a function of p and of the number of calls since; it does   *)
(* not depend on the pixels sampled before. Distinct pixels with           *)
(* non-negative coordinates get distinct seeds.                            *)
C25_PixelDeterminism ==
    /\ (call.fn = "sampler" /\ call.started) =>
          /\ call.sampler = SamplerAfter(call.sampler.current_pixel, call.calls)
          /\ IsSome(call.value) =>
                call.value.pt = SamplerGet2d(
                    SamplerAfter(call.sampler.current_pixel, call.calls - 1))
    /\ \A p, q \in SamplerPixels : p # q => PixelSeed(p) # PixelSeed(q)

(* a second pixel, reached after a pixel whose paths drew extra values     *)
C25_Witness ==
    /\ call.fn = "sampler" /\ call.started /\ call.phase = "path"
    /\ call.calls > 2 /\ call.sampler.current_pixel = [x |-> 1, y |-> 2]
    /\ IsSome(call.value)

(***************************************************************************)
(* SpecFilm: the pixel loops of render and Film::set_pixel                 *)
(* (src/core/integrator.rs, src/core/film.rs). The colour a pixel gets is  *)
(* an input; writes is the history of the indices set_pixel has written.   *)
(***************************************************************************)

(* pixel_color * (1.0 / spp), as the samples of the pixel made it          *)
FilmColours == {VI(0, 0, 0), VI(1, 0, 0), VI(0, 1, 1)}

(* Film::set_pixel                                                         *)
FilmSetPixel(film, p, color) == [film EXCEPT ![FilmIdx(p)] = color]

InitFilmState ==
    call = [fn |-> "film", x |-> 0, y |-> 0, film |-> FilmNew, writes |-> <<>>]

(* one turn of the body of `for x in 0..film.resolution.x`, with the loop  *)
(* counters advanced as the two for loops advance them                     *)
FilmRenderPixel ==
    /\ call.fn = "film" /\ call.y < ResY /\ call.x < ResX
    /\ \E color \in FilmColours :
         LET pixel == [x |-> call.x, y |-> call.y]
         IN  call' = [call EXCEPT
                        !.film = FilmSetPixel(call.film, pixel, color),
                        !.writes = Append(@, FilmIdx(pixel)),
                        !.x = IF call.x + 1 < ResX THEN call.x + 1 ELSE 0,
                        !.y = IF call.x + 1 < ResX THEN call.y ELSE call.y + 1]
    /\ UNCHANGED <<tri, lst, pathVars, ph>>

InitFilm == InitFilmState /\ tri = None /\ lst = None /\ IdlePath /\ ph = None

NextFilm == FilmRenderPixel

SpecFilm == InitFilm /\ [][NextFilm]_vars

FilmPixels == {[x |-> px, y |-> py] : px \in 0..(ResX - 1), py \in 0..(ResY - 1)}

(* the outer loop of render has run out                                    *)
FilmDone == call.fn = "film" /\ call.y >= ResY

(* C26: render calls set_pixel once for every pixel, rows from top to      *)
(* bottom and each row from left to right; distinct pixels of the          *)
(* resolution have distinct indices y * width + x inside the buffer; a     *)
(* set_pixel changes the cell of its pixel and no other.                   *)
C26_RasterOrder ==
    /\ [](call.fn = "film" =>
            /\ \A i \in 1..Len(call.writes) : call.writes[i] = i - 1
            /\ ~FilmDone => FilmIdx([x |-> call.x, y |-> call.y]) = Len(call.writes)
            /\ FilmDone => Len(call.writes) = ResX * ResY
            /\ \A p, q \in FilmPixels :
                 /\ FilmIdx(p) \in DOMAIN call.film
                 /\ p # q => FilmIdx(p) # FilmIdx(q))
    /\ [][call.fn = "film" =>
            /\ Len(call'.writes) = Len(call.writes) + 1
            /\ \A i \in DOMAIN call.film :
                 i # call'.writes[Len(call'.writes)] => call'.film[i] = call.film[i]
            /\ DOMAIN call'.film = DOMAIN call.film]_vars

(* the whole film written, the last pixel after a non-black first pixel    *)
C26_Witness ==
    /\ FilmDone /\ Len(call.writes) = ResX * ResY
    /\ call.film[0] # VI(0, 0, 0) /\ call.film[ResX * ResY - 1] # VI(0, 0, 0)

(***************************************************************************)
(* A further property of ThinDielectricBxDF::sample_f (SpecThin)           *)
(***************************************************************************)

(* r_prob of the call                                                      *)
ThinCallRProb ==
    ThinRProb(ThinRSpectrum(call.bxdf,
                            fr_dielectric(call.wo.z, QOne, call.bxdf.eta),
                            call.sin2))

(* C28: with u.x in [0, 1) and r_prob in [0, 1], sample_f reflects only    *)
(* when r_prob > 0 and transmits only when r_prob < 1; the pdf it returns  *)
(* is the probability of the branch taken and lies in (0, 1], and the      *)
(* factor 1 / pdf applied to the spectrum is finite.                       *)
C28_BranchHasProbability ==
    (ThinDone("sample_f") /\ QGe(call.u, QZero) /\ QLt(call.u, QOne)
        /\ QGe(ThinCallRProb, QZero) /\ QLe(ThinCallRProb, QOne)) =>
        /\ QLt(call.u, ThinCallRProb) =>
              QGt(ThinCallRProb, QZero) /\ call.sample.pdf = ThinCallRProb
        /\ ~QLt(call.u, ThinCallRProb) =>
              /\ QLt(ThinCallRProb, QOne)
              /\ call.sample.pdf = QSub(QOne, ThinCallRProb)
        /\ QGt(call.sample.pdf, QZero) /\ QLe(call.sample.pdf, QOne)
        /\ \A i \in 1..4 :
              QIsFinite(call.sample.f[i]) /\ QGe(call.sample.f[i], QZero)

(* r_prob = 0: a bubble at a phase without reflection, always transmitted  *)
C28_Witness ==
    /\ ThinDone("sample_f") /\ ThinCallRProb = QZero /\ call.u = QZero
    /\ call.sample.pdf = QOne /\ call.sample.wi = VNeg(call.wo)

(* r_prob = 1: grazing incidence, always reflected                         *)
C28_WitnessReflected ==
    /\ ThinDone("sample_f") /\ ThinCallRProb = QOne
    /\ call.u = Q(UDen - 1, UDen)
    /\ call.sample.pdf = QOne /\ call.sample.wi = ThinReflect(call.wo)

(***************************************************************************)
(* A further property of Triangle::intersect (SpecTri)                     *)
(***************************************************************************)

(* b0, b1, b2 = e0 * inv_det, e1 * inv_det, e2 * inv_det                  *)
TriBary(E, det) == <<QDiv(E.e0, det), QDiv(E.e1, det), QDiv(E.e2, det)>>

(* the UV of vertex i of triangle k                                        *)
TriVertexUV(k, i) == tri.mesh.uv.v[tri.mesh.vertex_indices[TriangleNew(k) + i]]

(* the edge functions agree in sign with det, which is not zero            *)
C29_SignsAgree(E, det) ==
    /\ det # QZero
    /\ \A e \in {E.e0, E.e1, E.e2} :
         /\ QGt(det, QZero) => QGe(e, QZero)
         /\ QLt(det, QZero) => QLe(e, QZero)

(* b is a convex weighting and the UV of the hit is its combination        *)
C29_Convex(k, b) ==
    /\ \A i \in 1..3 : QGe(b[i], QZero) /\ QLe(b[i], QOne)
    /\ QAdd(QAdd(b[1], b[2]), b[3]) = QOne
    /\ IsSome(tri.mesh.uv) =>
         \A c \in 1..2 :
            /\ tri.res[k].uv[c] =
                 QAdd(QAdd(QMul(b[1], TriVertexUV(k, 0)[c]),
                           QMul(b[2], TriVertexUV(k, 1)[c])),
                      QMul(b[3], TriVertexUV(k, 2)[c]))
            /\ QGe(tri.res[k].uv[c], QZero)
            /\ QLe(tri.res[k].uv[c], QOne)

(* C29: at every reported hit det is not zero and no edge function has the *)
(* strict sign opposite to det, so b0, b1, b2 lie in [0, 1] and sum to 1,  *)
(* and the UV returned is that convex combination of the vertex UVs.       *)
C29_ConvexBarycentrics ==
    \A k \in 0..1 :
        (TriDone(k) /\ TriHit(k)) =>
            \A E \in {TriScaled(k)} : \A det \in {DetOf(E)} :
                /\ C29_SignsAgree(E, det)
                /\ \A b \in {TriBary(E, det)} : C29_Convex(k, b)

(* a hit strictly inside triangle 0 of the mesh with UVs                   *)
C29_Witness ==
    /\ TriDone(0) /\ TriHit(0) /\ IsSome(tri.mesh.uv) /\ StrictlyInside
    /\ tri.res[0].uv # <<QZero, QZero>>

(* a hit with det < 0: all edge functions non-positive                     *)
C29_WitnessNegativeDet ==
    /\ TriDone(0) /\ TriHit(0) /\ OnSharedEdge
    /\ QLt(DetOf(TriScaled(0)), QZero)

(***************************************************************************)
(* SpecPick: the choice of the light of next event estimation              *)
(* (src/core/integrator.rs), for every length of the light list and        *)
(* sampler values up to and including 1.                                   *)
(***************************************************************************)

NLightsMax == 4   \* the light list has 0..NLightsMax lights
PickDen == 12     \* sampler values are the fractions k/PickDen in [0, 1]

(* pdf_light_choice = 1.0 / (n_lights as f32)                              *)
PdfLightChoice(n) == QDiv(QOne, QI(n))

(* the head of the block: nothing is computed for an empty list, else one  *)
(* light_idx and its pdf                                                   *)
PickLight(n, u) ==
    IF n = 0 THEN [skipped |-> TRUE, sampled |-> << >>]
    ELSE [skipped |-> FALSE, sampled |-> <<LightIdx(u, n)>>,
          pdf_light_choice |-> PdfLightChoice(n)]

InitPickState ==
    \E n \in 0..NLightsMax, k \in 0..PickDen :
        call = [fn |-> "light_choice", n_lights |-> n, u |-> Q(k, PickDen),
                done |-> FALSE, res |-> None]

PickCall ==
    /\ call # None /\ call.fn = "light_choice" /\ ~call.done
    /\ call' = [call EXCEPT !.done = TRUE,
                            !.res = PickLight(call.n_lights, call.u)]
    /\ UNCHANGED <<tri, lst, pathVars, ph>>

InitPick == InitPickState /\ tri = None /\ lst = None /\ IdlePath /\ ph = None

NextPick == PickCall

SpecPick == InitPick /\ [][NextPick]_vars

PickDone == call # None /\ call.fn = "light_choice" /\ call.done

(* C30: for every sampler value in [0, 1], 1 included, the light index is  *)
(* in 0..n_lights - 1; one light is sampled, light i for the values of     *)
(* [i/n, (i+1)/n), an interval of length 1/n_lights, which is the pdf      *)
(* used; with an empty list nothing is indexed or divided.                 *)
C30_LightIndexInRange ==
    PickDone =>
        /\ call.n_lights = 0 <=> call.res.skipped
        /\ call.res.skipped => call.res.sampled = << >>
        /\ ~call.res.skipped =>
              /\ Len(call.res.sampled) = 1
              /\ call.res.sampled[1] \in 0..(call.n_lights - 1)
              /\ \A i \in 0..(call.n_lights - 1) :
                    call.res.sampled[1] = i <=>
                        \/ /\ QGe(call.u, Q(i, call.n_lights))
                           /\ QLt(call.u, Q(i + 1, call.n_lights))
                        \/ i = call.n_lights - 1 /\ call.u = QOne
              /\ call.res.pdf_light_choice = Q(1, call.n_lights)
              /\ QIsFinite(call.res.pdf_light_choice)

(* the sampler value 1.0 with three lights: the last light                 *)
C30_Witness ==
    /\ PickDone /\ call.u = QOne /\ call.n_lights = 3
    /\ call.res.sampled = <<2>>

(* no lights: the block is skipped                                         *)
C30_WitnessEmpty ==
    /\ PickDone /\ call.n_lights = 0 /\ call.res.skipped

====
